---- MODULE Spec2Model ----
(***************************************************************************)
(* Saviour collector: the in-memory StateStore (internal/server/state.go), *)
(* the ingestion handlers that feed it (internal/api/handler.go) and the   *)
(* alert detection Engine (internal/alerting) with its deduplication map.  *)
(*                                                                         *)
(* Time is an integer clock.  `now` is the latest reading handed out by    *)
(* time.Now(); a store operation that stamps a time takes the reading      *)
(* now + 1, so readings taken in successive critical sections of the store *)
(* lock are strictly increasing.  The zero time.Time is 0.                 *)
(***************************************************************************)
EXTENDS Integers, Sequences, FiniteSets, TLC

\* ---------------------------------------------------------------- bounds
MaxTime == 5
StoreMaxTime == 3
MaxAlerts == 2
HeartbeatTimeout == 1

Agents == {"a1", "a2"}
Handlers == {"h1", "h2"}
ContainerIds == {"c1"}
ContainerStates == {"running", "exited"}
PushAgents == {"a1"}
SuppliedPrev == {"", "created"}
SuppliedChange == {0, 1}
CPUValues == {50, 85}
SystemCPUThreshold == 80
SystemMemoryThreshold == 85
SystemDiskThreshold == 90
ContainerCPUHigh == 90
ContainerMemoryHigh == 95
MaxWindow == 2

DedupMaxTime == 7
MaxChecks == 2
DedupWindows == {2, 5}
MaxCells == 9
MaxReads == 2
DiskLists == {<<>>, <<40>>}
ContainerLists == {<<>>, <<"running">>}

VARIABLES
    now,          \* latest clock reading
    mu,           \* StateStore.mu: "free" or the handler holding the write lock
    agents,       \* StateStore.agents: agent name -> ServerState
    alerts,       \* StateStore.alerts: alert id -> Alert
    req,          \* per ingestion goroutine: position in HandleMetricsPush and its locals
    nextId,       \* number of alert ids handed out so far (uuid.New)
    offline,      \* names of the agents the last CheckOfflineAgents returned
    last,         \* the last completed store call: its name and agent
    added,        \* per alert id, how AddAlert found the store: agent known, push in flight
    config,       \* Engine.config
    recentAlerts, \* Engine.recentAlerts: condition key -> time of the last successful send
    pc,           \* Engine: "idle" between cycles, "offline" in checkOfflineAgents, "scan" in the agent loop
    todo,         \* Engine: the conditions found true and not yet handled, in the code's order
    snapshot,     \* Engine: agents of the GetAllAgents snapshot still to evaluate -> their conditions
    calls,        \* the Notifier's record: one entry per SendAlert call
    cycle,        \* number of checkAlerts calls started
    rets,         \* the record of shouldSendAlert calls: key, time, entry consulted, result
    heap,         \* Go heap: address -> backing array, map, pointee or ServerState object
    root,         \* StateStore.agents as pointers: agent name -> address of its ServerState
    held,         \* the pointers a reader got from GetAgent / GetAllAgents
    horizon,      \* the last clock reading of the behaviours considered
    index,        \* StateStore.alerts as pointers: alert id -> address of its Alert
    got,          \* the pointers a reader got from GetAlert / GetActiveAlerts / GetAlertsByAgent
    sender,       \* agent Sender: maxRetries and retryBackoff
    call,         \* one sendWithRetry call: position, attempt, lastErr, ctx, returned error
    wire,         \* what the call did so far: each request with its outcome, each backoff waited
    run,          \* Agent.Run: position in the loop, the three ticker channels, lastMetrics
    file,         \* the alerting section of the server's config file, if the config was loaded
    http          \* the API's last exchange: the request and the status answered

svars == <<mu, agents, alerts, req, nextId, offline, last, added>>
evars == <<config, recentAlerts, pc, todo, snapshot, calls, cycle>>
hvars == <<heap, root, held, index, got>>
nvars == <<sender, call, wire, run>>
xvars == <<rets, hvars, nvars, horizon, file, http>>
vars == <<now, mu, agents, alerts, req, nextId, offline, last, added,
          config, recentAlerts, pc, todo, snapshot, calls, cycle,
          rets, heap, root, held, horizon, index, got, sender, call, wire, run,
          file, http>>

\* ------------------------------------------------------------ data model
\* no config file: the engine's Config was built by the caller
NoFile == [given |-> FALSE, system_cpu_threshold |-> 0,
           system_memory_threshold |-> 0, system_disk_threshold |-> 0]

\* no request served yet
IdleHttp ==
    [request |-> [path |-> "", method |-> "", auth |-> <<>>, valid |-> FALSE,
                  agent_name |-> "", length |-> 0, wire |-> 0, gzip |-> FALSE,
                  size |-> 0],
     status |-> 0,
     report |-> [agents_online |-> 0, agents_offline |-> 0, active_alerts |-> 0]]

NoState == [AgentName |-> "", LastSeen |-> 0, Status |-> "",
            CPU |-> 0, Memory |-> 0, Disk |-> <<>>,
            Containers |-> <<>>, ActiveAlerts |-> <<>>]

ContainerState(id, st, prev, chg) ==
    [ID |-> id, State |-> st, PreviousState |-> prev, LastStateChange |-> chg,
     Health |-> "", CPUPercent |-> 0, MemoryPercent |-> 0]

DiskMetrics(mount, used) == [MountPoint |-> mount, UsedPercent |-> used]

\* Alert.Details, reduced to the entries of a container's state
NoDetails == [state |-> "", previous_state |-> ""]

Alert(id, agent, type, sev) ==
    [ID |-> id, AgentName |-> agent, AlertType |-> type, Severity |-> sev,
     Status |-> "active", ResolvedAt |-> 0, NotifiedAt |-> 0, Details |-> NoDetails]

IdleReq == [pc |-> "idle", state |-> NoState, existing |-> FALSE]

\* the container lists an agent can report: none, or one entry per known id
SuppliedContainers ==
    {<<>>} \cup
    {<<ContainerState(id, st, prev, chg)>> :
        id \in ContainerIds, st \in ContainerStates,
        prev \in SuppliedPrev, chg \in SuppliedChange}

\* the alert lists a caller of UpdateAgent passes: the handler passes none,
\* a direct caller may pass its own
SuppliedAlerts(a) == {<<>>, <<Alert(0, a, "high_cpu", "warning")>>}

\* the ServerState values a caller builds for UpdateAgent
ServerState(a, c, cs, al) ==
    [AgentName |-> a, LastSeen |-> 0, Status |-> "", CPU |-> c,
     Memory |-> 0, Disk |-> <<>>, Containers |-> cs, ActiveAlerts |-> al]

\* what HandleMetricsPush builds from a payload without containers
\* (handler.go:416-422): the alert list is always empty
PushedStates == {ServerState(a, c, <<>>, <<>>) : a \in PushAgents, c \in CPUValues}

\* direct callers of the store: any alert list, no containers
StoreStates ==
    UNION {{ServerState(a, 50, <<>>, al) : al \in SuppliedAlerts(a)} : a \in PushAgents}

\* direct callers of the store: any container list, for every agent
MergeStates ==
    {ServerState(a, 50, cs, <<>>) : a \in Agents, cs \in SuppliedContainers}

\* -------------------------------------------------------- pure functions
Max(S) == CHOOSE x \in S : \A y \in S : y <= x

\* variant: an unchanged container keeps the fields the caller supplied
mergeContainerStates_NoCarry(previous, current, t) ==
    [i \in 1..Len(current) |->
        LET curr == current[i]
            hits == {j \in 1..Len(previous) : previous[j].ID = curr.ID}
        IN  IF hits # {}
            THEN LET prev == previous[Max(hits)]
                 IN  IF curr.State # prev.State
                     THEN [curr EXCEPT !.PreviousState = prev.State,
                                       !.LastStateChange = t]
                     ELSE curr
            ELSE [curr EXCEPT !.LastStateChange = t]]

\* variant: a container the push no longer reports stays in the list
mergeContainerStates_KeepAbsent(previous, current, t) ==
    [i \in 1..Len(current) |->
        LET curr == current[i]
            hits == {j \in 1..Len(previous) : previous[j].ID = curr.ID}
        IN  IF hits # {}
            THEN LET prev == previous[Max(hits)]
                 IN  IF curr.State # prev.State
                     THEN [curr EXCEPT !.PreviousState = prev.State,
                                       !.LastStateChange = t]
                     ELSE [curr EXCEPT !.PreviousState = prev.PreviousState,
                                       !.LastStateChange = prev.LastStateChange]
            ELSE [curr EXCEPT !.LastStateChange = t]]
    \o SelectSeq(previous,
                 LAMBDA p : \A i \in 1..Len(current) : current[i].ID # p.ID)

mergeContainerStates(previous, current, t) ==
    [i \in 1..Len(current) |->
        LET curr == current[i]
            hits == {j \in 1..Len(previous) : previous[j].ID = curr.ID}
        IN  IF hits # {}
            THEN LET prev == previous[Max(hits)]
                 IN  IF curr.State # prev.State
                     THEN [curr EXCEPT !.PreviousState = prev.State,
                                       !.LastStateChange = t]
                     ELSE [curr EXCEPT !.PreviousState = prev.PreviousState,
                                       !.LastStateChange = prev.LastStateChange]
            ELSE [curr EXCEPT !.LastStateChange = t]]

\* ------------------------------------------------------ ingestion (push)
\* HandleMetricsPush up to the call of UpdateAgent (handler.go:386-422): the
\* request names its agent; the rest of the decoded payload is first read once
\* the store lock is held, so it is chosen there.
HandleMetricsPush(h, a) ==
    /\ req[h].pc = "idle"
    /\ req' = [req EXCEPT ![h].pc = "built", ![h].state.AgentName = a]
    /\ UNCHANGED <<now, mu, agents, alerts, nextId, offline, last, added, evars, xvars>>

\* variant: UpdateAgent without s.mu
UpdateAgentLock_NoLock(h, st) ==
    /\ req[h].pc = "built"
    /\ st.AgentName = req[h].state.AgentName
    /\ req' = [req EXCEPT ![h] = [pc |-> "locked", state |-> st,
                                  existing |-> (st.AgentName \in DOMAIN agents)]]
    /\ UNCHANGED <<now, mu, agents, alerts, nextId, offline, last, added, evars, xvars>>

\* UpdateAgent, lines 25-28: take the write lock and look the agent up
UpdateAgentLock(h, st) ==
    /\ req[h].pc = "built"
    /\ st.AgentName = req[h].state.AgentName
    /\ mu = "free"
    /\ mu' = h
    /\ req' = [req EXCEPT ![h] = [pc |-> "locked", state |-> st,
                                  existing |-> (st.AgentName \in DOMAIN agents)]]
    /\ UNCHANGED <<now, agents, alerts, nextId, offline, last, added, evars, xvars>>

\* variant: UpdateAgent without line 34, the incoming alert list is stored
UpdateAgentMerge_NoCarry(h) ==
    /\ req[h].pc = "locked"
    /\ now < horizon
    /\ LET st == req[h].state
       IN  IF req[h].existing
           THEN req' = [req EXCEPT ![h].pc = "merged",
                       ![h].state.Containers =
                           mergeContainerStates(agents[st.AgentName].Containers,
                                                st.Containers, now + 1)]
           ELSE req' = [req EXCEPT ![h].pc = "merged"]
    /\ UNCHANGED <<now, mu, agents, alerts, nextId, offline, last, added, evars, xvars>>

\* UpdateAgent, lines 29-35: merge the containers, carry the alert list over
UpdateAgentMerge(h) ==
    /\ req[h].pc = "locked"
    /\ now < horizon
    /\ LET st == req[h].state
       IN  IF req[h].existing
           THEN req' = [req EXCEPT ![h].pc = "merged",
                       ![h].state.Containers =
                           mergeContainerStates(agents[st.AgentName].Containers,
                                                st.Containers, now + 1),
                       ![h].state.ActiveAlerts = agents[st.AgentName].ActiveAlerts]
           ELSE req' = [req EXCEPT ![h].pc = "merged"]
    /\ UNCHANGED <<now, mu, agents, alerts, nextId, offline, last, added, evars, xvars>>

\* UpdateAgent, lines 38-41 and the deferred Unlock
UpdateAgentStore(h) ==
    /\ req[h].pc = "merged"
    /\ now < horizon
    /\ now' = now + 1
    /\ LET st == [req[h].state EXCEPT !.Status = "online", !.LastSeen = now + 1]
           a == st.AgentName
       IN  /\ agents' = [x \in DOMAIN agents \cup {a} |->
                            IF x = a THEN st ELSE agents[x]]
           /\ last' = [op |-> "UpdateAgent", agent |-> a]
    /\ mu' = IF mu = h THEN "free" ELSE mu
    /\ req' = [req EXCEPT ![h] = IdleReq]
    /\ UNCHANGED <<alerts, nextId, offline, added, evars, xvars>>

\* ------------------------------------------------- other store operations
\* Each runs under s.mu from its first to its last statement, so it is one step.
\* variant: a heartbeat replaces the record by a minimal one
UpdateHeartbeat_Reset(a) ==
    /\ mu = "free"
    /\ now < horizon
    /\ now' = now + 1
    /\ agents' = [x \in DOMAIN agents \cup {a} |->
                    IF x = a
                    THEN [NoState EXCEPT !.AgentName = a, !.LastSeen = now + 1,
                                         !.Status = "online"]
                    ELSE agents[x]]
    /\ last' = [op |-> "UpdateHeartbeat", agent |-> a]
    /\ UNCHANGED <<mu, alerts, req, nextId, offline, added, evars, xvars>>

\* variant: a heartbeat of a known agent refreshes last_seen only
UpdateHeartbeat_NoStatus(a) ==
    /\ mu = "free"
    /\ now < horizon
    /\ now' = now + 1
    /\ agents' = [x \in DOMAIN agents \cup {a} |->
                    IF x = a
                    THEN (IF a \in DOMAIN agents
                          THEN [agents[a] EXCEPT !.LastSeen = now + 1]
                          ELSE [NoState EXCEPT !.AgentName = a, !.LastSeen = now + 1,
                                               !.Status = "online"])
                    ELSE agents[x]]
    /\ last' = [op |-> "UpdateHeartbeat", agent |-> a]
    /\ UNCHANGED <<mu, alerts, req, nextId, offline, added, evars, xvars>>

\* UpdateHeartbeat from Lock to Unlock
UpdateHeartbeatLocked(a) ==
    /\ mu = "free"
    /\ now < horizon
    /\ now' = now + 1
    /\ agents' = [x \in DOMAIN agents \cup {a} |->
                    IF x = a
                    THEN [(IF a \in DOMAIN agents THEN agents[a]
                           ELSE [NoState EXCEPT !.AgentName = a])
                          EXCEPT !.LastSeen = now + 1, !.Status = "online"]
                    ELSE agents[x]]
    /\ last' = [op |-> "UpdateHeartbeat", agent |-> a]

UpdateHeartbeat(a) ==
    /\ UpdateHeartbeatLocked(a)
    /\ UNCHANGED <<mu, alerts, req, nextId, offline, added, evars, xvars>>

\* variant: every stale agent is returned, whatever its status
Stale_AnyStatus(timeout, t) ==
    {a \in DOMAIN agents : t - agents[a].LastSeen > timeout}

\* the agents CheckOfflineAgents flips at clock reading t
Stale(timeout, t) ==
    {a \in DOMAIN agents : agents[a].Status = "online" /\ t - agents[a].LastSeen > timeout}

CheckOfflineAgents(timeout) ==
    /\ mu = "free"
    /\ now < horizon
    /\ now' = now + 1
    /\ agents' = [a \in DOMAIN agents |->
                    IF a \in Stale(timeout, now + 1)
                    THEN [agents[a] EXCEPT !.Status = "offline"] ELSE agents[a]]
    /\ offline' = Stale(timeout, now + 1)

AddAlert(alert) ==
    /\ mu = "free"
    /\ alerts' = [i \in DOMAIN alerts \cup {alert.ID} |->
                    IF i = alert.ID THEN alert ELSE alerts[i]]
    /\ agents' = IF alert.AgentName \in DOMAIN agents
                 THEN [agents EXCEPT ![alert.AgentName].ActiveAlerts = Append(@, alert)]
                 ELSE agents
    /\ added' = [i \in DOMAIN added \cup {alert.ID} |->
                    IF i = alert.ID
                    THEN [listed |-> alert.AgentName \in DOMAIN agents,
                          overlap |-> \E h \in Handlers :
                                         /\ req[h].pc # "idle"
                                         /\ req[h].state.AgentName = alert.AgentName]
                    ELSE added[i]]

\* variant: ResolveAlert leaving the alert in the run's active list
ResolveAlert_KeepListed(alertID) ==
    /\ mu = "free"
    /\ IF alertID \in DOMAIN alerts
       THEN /\ now < horizon
            /\ now' = now + 1
            /\ alerts' = [alerts EXCEPT ![alertID].ResolvedAt = now + 1,
                                        ![alertID].Status = "resolved"]
            /\ agents' = agents
       ELSE UNCHANGED <<now, alerts, agents>>
    /\ last' = [op |-> "ResolveAlert", agent |-> ""]
    /\ UNCHANGED <<mu, req, nextId, offline, added, evars, xvars>>

\* variant: ResolveAlert deleting the alert from the id index
ResolveAlert_Delete(alertID) ==
    /\ mu = "free"
    /\ IF alertID \in DOMAIN alerts
       THEN LET a == alerts[alertID].AgentName
                keep(x) == x.ID # alertID
            IN  /\ now < horizon
                /\ now' = now + 1
                /\ alerts' = [i \in DOMAIN alerts \ {alertID} |-> alerts[i]]
                /\ agents' = IF a \in DOMAIN agents
                             THEN [agents EXCEPT ![a].ActiveAlerts = SelectSeq(@, keep)]
                             ELSE agents
       ELSE UNCHANGED <<now, alerts, agents>>
    /\ last' = [op |-> "ResolveAlert", agent |-> ""]
    /\ UNCHANGED <<mu, req, nextId, offline, added, evars, xvars>>

\* variant: ResolveAlert emptying the run's whole active list
ResolveAlert_DropAll(alertID) ==
    /\ mu = "free"
    /\ IF alertID \in DOMAIN alerts
       THEN LET a == alerts[alertID].AgentName
            IN  /\ now < horizon
                /\ now' = now + 1
                /\ alerts' = [alerts EXCEPT ![alertID].ResolvedAt = now + 1,
                                            ![alertID].Status = "resolved"]
                /\ agents' = IF a \in DOMAIN agents
                             THEN [agents EXCEPT ![a].ActiveAlerts = <<>>]
                             ELSE agents
       ELSE UNCHANGED <<now, alerts, agents>>
    /\ last' = [op |-> "ResolveAlert", agent |-> ""]
    /\ UNCHANGED <<mu, req, nextId, offline, added, evars, xvars>>

ResolveAlert(alertID) ==
    /\ mu = "free"
    /\ IF alertID \in DOMAIN alerts
       THEN LET a == alerts[alertID].AgentName
                keep(x) == x.ID # alertID
            IN  /\ now < horizon
                /\ now' = now + 1
                /\ alerts' = [alerts EXCEPT ![alertID].ResolvedAt = now + 1,
                                            ![alertID].Status = "resolved"]
                /\ agents' = IF a \in DOMAIN agents
                             THEN [agents EXCEPT ![a].ActiveAlerts = SelectSeq(@, keep)]
                             ELSE agents
       ELSE UNCHANGED <<now, alerts, agents>>
    /\ last' = [op |-> "ResolveAlert", agent |-> ""]
    /\ UNCHANGED <<mu, req, nextId, offline, added, evars, xvars>>

\* ---------------------------------------------- direct calls on the store
CallCheckOfflineAgents ==
    /\ CheckOfflineAgents(HeartbeatTimeout)
    /\ last' = [op |-> "CheckOfflineAgents", agent |-> ""]
    /\ UNCHANGED <<mu, alerts, req, nextId, added, evars, xvars>>

CallAddAlert(a) ==
    /\ nextId < MaxAlerts
    /\ nextId' = nextId + 1
    /\ AddAlert(Alert(nextId + 1, a, "high_cpu", "warning"))
    /\ last' = [op |-> "AddAlert", agent |-> a]
    /\ UNCHANGED <<now, mu, req, offline, evars, xvars>>

Tick ==
    /\ now < horizon
    /\ now' = now + 1
    /\ UNCHANGED <<svars, evars, xvars>>

\* ------------------------------------------------------------ the engine
Key(kind, agent, sub) == [kind |-> kind, agent |-> agent, sub |-> sub]

Cond(kind, type, sev, agent, sub) ==
    [key |-> Key(kind, agent, sub), AlertType |-> type, Severity |-> sev,
     AgentName |-> agent, details |-> NoDetails]

\* variant: a key is eligible again once a full window has elapsed
shouldSendAlert_AtWindow(alertKey) ==
    IF ~config.DeduplicationEnabled THEN TRUE
    ELSE IF alertKey \notin DOMAIN recentAlerts THEN TRUE
    ELSE now - recentAlerts[alertKey] >= config.DeduplicationWindow

shouldSendAlert(alertKey) ==
    IF ~config.DeduplicationEnabled THEN TRUE
    ELSE IF alertKey \notin DOMAIN recentAlerts THEN TRUE
    ELSE now - recentAlerts[alertKey] > config.DeduplicationWindow

markAlertSent(alertKey) ==
    [k \in DOMAIN recentAlerts \cup {alertKey} |->
        IF k = alertKey THEN now ELSE recentAlerts[k]]

\* variant: the sweep drops every entry, whatever its age
cleanupDeduplication_All == [k \in {} |-> 0]

cleanupDeduplication ==
    [k \in {x \in DOMAIN recentAlerts :
                ~(now - recentAlerts[x] > config.DeduplicationWindow * 2)} |->
        recentAlerts[k]]

\* AlertingAdapter.AddAlert: the store gets its own copy of the engine's alert
AdapterAddAlert(alert) == AddAlert(alert)

\* Notifier.SendAlert as the engine sees it: the call and its outcome
SendAlert(alert, alertKey, ok) ==
    calls' = Append(calls, [key |-> alertKey, id |-> alert.ID, ok |-> ok,
                            at |-> now, cycle |-> cycle])

\* variant: the key is marked whatever the Notifier returned
sendAlert_MarkAlways(alert, alertKey, ok) ==
    /\ AdapterAddAlert(alert)
    /\ SendAlert(alert, alertKey, ok)
    /\ recentAlerts' = markAlertSent(alertKey)

\* variant: the alert is stored only when the Notifier accepted it
sendAlert_Rollback(alert, alertKey, ok) ==
    /\ IF ok THEN AdapterAddAlert(alert) ELSE UNCHANGED <<alerts, agents, added>>
    /\ SendAlert(alert, alertKey, ok)
    /\ recentAlerts' = IF ok THEN markAlertSent(alertKey) ELSE recentAlerts

sendAlert(alert, alertKey, ok) ==
    /\ AdapterAddAlert(alert)
    /\ SendAlert(alert, alertKey, ok)
    /\ recentAlerts' = IF ok THEN markAlertSent(alertKey) ELSE recentAlerts

\* the disk loop of checkSystemAlerts, lines 552-573
RECURSIVE DiskConds(_, _)
DiskConds(a, ds) ==
    IF ds = <<>> THEN <<>>
    ELSE LET disk == Head(ds)
         IN  (IF config.SystemDiskThreshold > 0
                 /\ disk.UsedPercent > config.SystemDiskThreshold
              THEN <<Cond("system_disk", "system_disk_high", "critical", a, disk.MountPoint)>>
              ELSE <<>>)
             \o DiskConds(a, Tail(ds))

\* variant: a threshold of 0 is a threshold like any other
checkSystemAlerts_NoZeroTest(agent) ==
    (IF agent.CPU > config.SystemCPUThreshold
     THEN <<Cond("system_cpu", "system_cpu_high", "warning", agent.AgentName, "")>>
     ELSE <<>>)
    \o (IF agent.Memory > config.SystemMemoryThreshold
        THEN <<Cond("system_memory", "system_memory_high", "warning", agent.AgentName, "")>>
        ELSE <<>>)
    \o DiskConds(agent.AgentName, agent.Disk)

checkSystemAlerts(agent) ==
    (IF config.SystemCPUThreshold > 0 /\ agent.CPU > config.SystemCPUThreshold
     THEN <<Cond("system_cpu", "system_cpu_high", "warning", agent.AgentName, "")>>
     ELSE <<>>)
    \o (IF config.SystemMemoryThreshold > 0 /\ agent.Memory > config.SystemMemoryThreshold
        THEN <<Cond("system_memory", "system_memory_high", "warning", agent.AgentName, "")>>
        ELSE <<>>)
    \o DiskConds(agent.AgentName, agent.Disk)

\* variant: a container already reported stopped raises nothing else
RECURSIVE ContainerConds_FirstOnly(_, _)
ContainerConds_FirstOnly(a, cs) ==
    IF cs = <<>> THEN <<>>
    ELSE LET c == Head(cs)
         IN  (IF c.PreviousState = "running" /\ c.State \in {"exited", "dead"}
              THEN <<[Cond("container_stopped", "container_stopped", "critical", a, c.ID)
                        EXCEPT !.details = [state |-> c.State,
                                            previous_state |-> c.PreviousState]]>>
              ELSE IF c.Health = "unhealthy"
              THEN <<Cond("container_unhealthy", "container_unhealthy", "warning", a, c.ID)>>
              ELSE IF c.CPUPercent > ContainerCPUHigh
              THEN <<Cond("container_cpu", "container_cpu_high", "warning", a, c.ID)>>
              ELSE IF c.MemoryPercent > ContainerMemoryHigh
              THEN <<Cond("container_memory", "container_memory_high", "critical", a, c.ID)>>
              ELSE <<>>)
             \o ContainerConds_FirstOnly(a, Tail(cs))

\* variant: the stopped alert carries the state pushed, not the one before
RECURSIVE ContainerConds_NoPrevious(_, _)
ContainerConds_NoPrevious(a, cs) ==
    IF cs = <<>> THEN <<>>
    ELSE LET c == Head(cs)
         IN  (IF c.PreviousState = "running" /\ c.State \in {"exited", "dead"}
              THEN <<[Cond("container_stopped", "container_stopped", "critical", a, c.ID)
                        EXCEPT !.details = [state |-> c.State,
                                            previous_state |-> c.State]]>>
              ELSE <<>>)
             \o (IF c.Health = "unhealthy"
                 THEN <<Cond("container_unhealthy", "container_unhealthy", "warning", a, c.ID)>>
                 ELSE <<>>)
             \o (IF c.CPUPercent > ContainerCPUHigh
                 THEN <<Cond("container_cpu", "container_cpu_high", "warning", a, c.ID)>>
                 ELSE <<>>)
             \o (IF c.MemoryPercent > ContainerMemoryHigh
                 THEN <<Cond("container_memory", "container_memory_high", "critical", a, c.ID)>>
                 ELSE <<>>)
             \o ContainerConds_NoPrevious(a, Tail(cs))

\* the loop of checkContainerAlerts, lines 578-671: four independent tests
RECURSIVE ContainerConds(_, _)
ContainerConds(a, cs) ==
    IF cs = <<>> THEN <<>>
    ELSE LET c == Head(cs)
         IN  (IF c.PreviousState = "running" /\ c.State \in {"exited", "dead"}
              THEN <<[Cond("container_stopped", "container_stopped", "critical", a, c.ID)
                        EXCEPT !.details = [state |-> c.State,
                                            previous_state |-> c.PreviousState]]>>
              ELSE <<>>)
             \o (IF c.Health = "unhealthy"
                 THEN <<Cond("container_unhealthy", "container_unhealthy", "warning", a, c.ID)>>
                 ELSE <<>>)
             \o (IF c.CPUPercent > ContainerCPUHigh
                 THEN <<Cond("container_cpu", "container_cpu_high", "warning", a, c.ID)>>
                 ELSE <<>>)
             \o (IF c.MemoryPercent > ContainerMemoryHigh
                 THEN <<Cond("container_memory", "container_memory_high", "critical", a, c.ID)>>
                 ELSE <<>>)
             \o ContainerConds(a, Tail(cs))

checkContainerAlerts(agent) == ContainerConds(agent.AgentName, agent.Containers)

\* the orders in which a range loop over a Go map can visit the set S
Orders(S) ==
    {o \in [1..Cardinality(S) -> S] : \A i, j \in 1..Cardinality(S) : i # j => o[i] # o[j]}

\* variant: every tick starts checkAlerts without waiting for the previous
\* call to return
EngineCheckOffline_NoWait ==
    /\ CheckOfflineAgents(config.HeartbeatTimeout)
    /\ \E o \in Orders(Stale(config.HeartbeatTimeout, now + 1)) :
          todo' = [i \in DOMAIN o |->
                      Cond("agent_offline", "agent_offline", "critical", o[i], "")]
    /\ pc' = "offline"
    /\ cycle' = cycle + 1
    /\ UNCHANGED <<mu, alerts, req, nextId, last, added,
                   config, recentAlerts, snapshot, calls, xvars>>

\* checkAlerts enters checkOfflineAgents: the store call of line 476
EngineCheckOffline ==
    /\ pc = "idle"
    /\ CheckOfflineAgents(config.HeartbeatTimeout)
    /\ \E o \in Orders(Stale(config.HeartbeatTimeout, now + 1)) :
          todo' = [i \in DOMAIN o |->
                      Cond("agent_offline", "agent_offline", "critical", o[i], "")]
    /\ pc' = "offline"
    /\ cycle' = cycle + 1
    /\ UNCHANGED <<mu, alerts, req, nextId, last, added,
                   config, recentAlerts, snapshot, calls, xvars>>

\* checkOfflineAgents, one pass of the loop of lines 478-504
EngineOfflineAlert ==
    /\ pc = "offline"
    /\ todo # <<>>
    /\ LET c == Head(todo)
       IN  IF shouldSendAlert(c.key)
           THEN /\ nextId < MaxAlerts
                /\ nextId' = nextId + 1
                /\ \E ok \in BOOLEAN :
                      LET alert == [Alert(nextId + 1, c.AgentName, c.AlertType, c.Severity)
                                      EXCEPT !.Details = c.details]
                      IN  /\ AdapterAddAlert(alert)
                          /\ SendAlert(alert, c.key, ok)
                          /\ recentAlerts' = IF ok THEN markAlertSent(c.key)
                                             ELSE recentAlerts
           ELSE UNCHANGED <<nextId, alerts, agents, added, calls, recentAlerts>>
    /\ todo' = Tail(todo)
    /\ UNCHANGED <<now, mu, req, offline, last, config, pc, snapshot, cycle, xvars>>

\* variant: every agent of the snapshot is evaluated, whatever its status
EngineGetAllAgents_AnyStatus ==
    /\ pc = "offline"
    /\ todo = <<>>
    /\ mu = "free"
    /\ LET conds(a) == checkSystemAlerts(agents[a]) \o checkContainerAlerts(agents[a])
           live == {a \in DOMAIN agents : conds(a) # <<>>}
       IN  snapshot' = [a \in live |-> conds(a)]
    /\ pc' = "scan"
    /\ UNCHANGED <<now, svars, config, recentAlerts, todo, calls, cycle, xvars>>

\* checkAlerts, line 462: the snapshot, reduced to what lines 463-468 use of it
EngineGetAllAgents ==
    /\ pc = "offline"
    /\ todo = <<>>
    /\ mu = "free"
    /\ LET conds(a) == checkSystemAlerts(agents[a]) \o checkContainerAlerts(agents[a])
           live == {a \in DOMAIN agents :
                        agents[a].Status = "online" /\ conds(a) # <<>>}
       IN  snapshot' = [a \in live |-> conds(a)]
    /\ pc' = "scan"
    /\ UNCHANGED <<now, svars, config, recentAlerts, todo, calls, cycle, xvars>>

\* checkAlerts, lines 463-468: the next agent of the snapshot
EngineEvalAgent ==
    /\ pc = "scan"
    /\ todo = <<>>
    /\ \E a \in DOMAIN snapshot :
          /\ todo' = snapshot[a]
          /\ snapshot' = [x \in DOMAIN snapshot \ {a} |-> snapshot[x]]
    /\ UNCHANGED <<now, svars, config, recentAlerts, pc, calls, cycle, xvars>>

\* variant: a Notifier failure ends the cycle's scan
EngineSendAlert_AbortOnFailure ==
    /\ pc = "scan"
    /\ todo # <<>>
    /\ LET c == Head(todo)
       IN  IF shouldSendAlert(c.key)
           THEN /\ nextId < MaxAlerts
                /\ nextId' = nextId + 1
                /\ \E ok \in BOOLEAN :
                      /\ sendAlert([Alert(nextId + 1, c.AgentName, c.AlertType, c.Severity)
                                       EXCEPT !.Details = c.details],
                                   c.key, ok)
                      /\ todo' = IF ok THEN Tail(todo) ELSE <<>>
                      /\ snapshot' = IF ok THEN snapshot ELSE <<>>
           ELSE /\ UNCHANGED <<nextId, alerts, agents, added, calls, recentAlerts, snapshot>>
                /\ todo' = Tail(todo)
    /\ UNCHANGED <<now, mu, req, offline, last, config, pc, cycle, xvars>>

\* checkSystemAlerts / checkContainerAlerts: one condition that holds
EngineSendAlert ==
    /\ pc = "scan"
    /\ todo # <<>>
    /\ LET c == Head(todo)
       IN  IF shouldSendAlert(c.key)
           THEN /\ nextId < MaxAlerts
                /\ nextId' = nextId + 1
                /\ \E ok \in BOOLEAN :
                      sendAlert([Alert(nextId + 1, c.AgentName, c.AlertType, c.Severity)
                                    EXCEPT !.Details = c.details],
                                c.key, ok)
           ELSE UNCHANGED <<nextId, alerts, agents, added, calls, recentAlerts>>
    /\ todo' = Tail(todo)
    /\ UNCHANGED <<now, mu, req, offline, last, config, pc, snapshot, cycle, xvars>>

\* checkAlerts, line 471, and the return to the ticker loop
EngineCleanup ==
    /\ pc = "scan"
    /\ todo = <<>>
    /\ DOMAIN snapshot = {}
    /\ recentAlerts' = cleanupDeduplication
    /\ pc' = "idle"
    /\ UNCHANGED <<now, svars, config, todo, snapshot, calls, cycle, xvars>>

\* ---------------------------------------------------------------- the API
\* MaxRequestSize, in units of 5 MB
MaxRequestSize == 2

\* the keys of the server's auth configuration with their scopes
APIKeys ==
    [k \in {"k-both", "k-metrics", "k-heartbeat"} |->
        CASE k = "k-both" -> {"metrics:write", "heartbeat:write"}
          [] k = "k-metrics" -> {"metrics:write"}
          [] k = "k-heartbeat" -> {"heartbeat:write"}]

\* an Authorization header as strings.Split(header, " ") sees it; <<>> stands
\* for the empty (missing) header
AuthHeaders ==
    {<<>>, <<"Bearer">>, <<"Basic", "k-both">>, <<"Bearer", "k-unknown">>,
     <<"Bearer", "k-metrics">>, <<"Bearer", "k-heartbeat">>}

\* a body as the handler meets it: the Content-Length announced (-1 when the
\* transfer is chunked), the bytes on the wire, whether Content-Encoding is
\* gzip, the size of the JSON document once decompressed
BodyShapes ==
    {[length |-> 1, wire |-> 1, gzip |-> FALSE, size |-> 1],
     [length |-> 3, wire |-> 3, gzip |-> FALSE, size |-> 3],
     [length |-> 0 - 1, wire |-> 3, gzip |-> FALSE, size |-> 3],
     [length |-> 1, wire |-> 1, gzip |-> TRUE, size |-> 3]}

\* a request: valid says whether the body is a JSON document of the payload's
\* type, agent_name is its agent_name field
Request(path, method, auth, valid, name, shape) ==
    [path |-> path, method |-> method, auth |-> auth, valid |-> valid,
     agent_name |-> name, length |-> shape.length, wire |-> shape.wire,
     gzip |-> shape.gzip, size |-> shape.size]

Documents == {<<FALSE, "">>, <<TRUE, "">>, <<TRUE, "a1">>}

MetricsRequests ==
    {Request("/api/v1/metrics/push", m, a, d[1], d[2], s) :
        m \in {"POST", "GET"}, a \in AuthHeaders, d \in Documents, s \in BodyShapes}

HeartbeatRequests ==
    {Request("/api/v1/heartbeat", m, a, d[1], d[2],
             [length |-> 1, wire |-> 1, gzip |-> FALSE, size |-> 1]) :
        m \in {"POST", "GET"}, a \in AuthHeaders, d \in Documents}

HealthRequests ==
    {Request("/api/v1/health", m, <<>>, FALSE, "",
             [length |-> 0, wire |-> 0, gzip |-> FALSE, size |-> 0]) :
        m \in {"GET", "POST"}}

\* the scopes main requires on each route
RequiredScopes(path) ==
    CASE path = "/api/v1/metrics/push" -> {"metrics:write"}
      [] path = "/api/v1/heartbeat" -> {"heartbeat:write"}
      [] OTHER -> {}

hasScopes(keyScopes, requiredScopes) ==
    \A required \in requiredScopes : required \in keyScopes

\* variant: a configured key passes whatever its scopes
AuthMiddleware_NoScopes(requiredScopes, r) ==
    IF r.auth = <<>> THEN 401
    ELSE IF Len(r.auth) # 2 \/ r.auth[1] # "Bearer" THEN 401
    ELSE IF r.auth[2] \notin DOMAIN APIKeys THEN 401
    ELSE 0

\* AuthMiddleware: the status it answers, or 0 when it calls the next handler
AuthMiddleware(requiredScopes, r) ==
    IF r.auth = <<>> THEN 401
    ELSE IF Len(r.auth) # 2 \/ r.auth[1] # "Bearer" THEN 401
    ELSE IF r.auth[2] \notin DOMAIN APIKeys THEN 401
    ELSE IF requiredScopes # {} /\ ~hasScopes(APIKeys[r.auth[2]], requiredScopes) THEN 403
    ELSE 0

\* readBody and the Decode of HandleMetricsPush: the JSON decoder reads the
\* document through the gzip reader, if any, and through MaxBytesReader,
\* which counts the bytes of the wire
DecodeFails(r) == r.wire > MaxRequestSize \/ ~r.valid

\* HandleMetricsPush up to the call of UpdateAgent: the status answered, 200
\* when UpdateAgent is called
MetricsPushStatus(r) ==
    IF r.method # "POST" THEN 405
    ELSE IF r.length > MaxRequestSize THEN 413
    ELSE IF DecodeFails(r) THEN 400
    ELSE IF r.agent_name = "" THEN 400
    ELSE 200

\* variant: HandleHeartbeat without the agent_name test
HeartbeatStatus_AnyName(r) ==
    IF r.method # "POST" THEN 405
    ELSE IF ~r.valid THEN 400
    ELSE 200

\* HandleHeartbeat up to the call of UpdateHeartbeat
HeartbeatStatus(r) ==
    IF r.method # "POST" THEN 405
    ELSE IF ~r.valid THEN 400
    ELSE IF r.agent_name = "" THEN 400
    ELSE 200

NoReport == [agents_online |-> 0, agents_offline |-> 0, active_alerts |-> 0]

Exchange(r, status) == [request |-> r, status |-> status, report |-> NoReport]

\* POST /api/v1/metrics/push: the middleware, then HandleMetricsPush up to
\* the call of UpdateAgent, which the goroutine h goes on to make
ServeMetricsPush(h, r) ==
    /\ req[h].pc = "idle"
    /\ LET denied == AuthMiddleware(RequiredScopes(r.path), r)
           status == IF denied # 0 THEN denied ELSE MetricsPushStatus(r)
       IN  /\ http' = Exchange(r, status)
           /\ req' = IF status = 200
                     THEN [req EXCEPT ![h].pc = "built",
                                      ![h].state.AgentName = r.agent_name]
                     ELSE req
    /\ UNCHANGED <<now, mu, agents, alerts, nextId, offline, last, added, evars,
                   rets, hvars, nvars, horizon, file>>

\* POST /api/v1/heartbeat: the middleware, then HandleHeartbeat
ServeHeartbeat(r) ==
    /\ LET denied == AuthMiddleware(RequiredScopes(r.path), r)
           status == IF denied # 0 THEN denied ELSE HeartbeatStatus(r)
       IN  /\ http' = Exchange(r, status)
           /\ IF status = 200
              THEN UpdateHeartbeatLocked(r.agent_name)
              ELSE UNCHANGED <<now, agents, last>>
    /\ UNCHANGED <<mu, alerts, req, nextId, offline, added, evars,
                   rets, hvars, nvars, horizon, file>>

\* variant: every stored agent counts as online
RECURSIVE countOnlineAgents_All(_)
countOnlineAgents_All(list) ==
    IF list = <<>> THEN 0 ELSE 1 + countOnlineAgents_All(Tail(list))

RECURSIVE countOnlineAgents(_)
countOnlineAgents(list) ==
    IF list = <<>> THEN 0
    ELSE (IF Head(list).Status = "online" THEN 1 ELSE 0) + countOnlineAgents(Tail(list))

RECURSIVE countOfflineAgents(_)
countOfflineAgents(list) ==
    IF list = <<>> THEN 0
    ELSE (IF Head(list).Status = "offline" THEN 1 ELSE 0) + countOfflineAgents(Tail(list))

\* the lists StateStore.GetAllAgents can return: the stored agents in any
\* order of the map
AgentLists == {[i \in DOMAIN o |-> agents[o[i]]] : o \in Orders(DOMAIN agents)}

\* the length of the list StateStore.GetActiveAlerts returns
ActiveAlertCount == Cardinality({i \in DOMAIN alerts : alerts[i].Status = "active"})

\* GET /api/v1/health, up to the return of GetAllAgents (handler.go:134-140)
HandleHealth(r) ==
    /\ IF r.method # "GET"
       THEN http' = Exchange(r, 405)
       ELSE /\ mu = "free"
            /\ \E list \in AgentLists :
                  http' = [request |-> r, status |-> 0,
                           report |-> [NoReport EXCEPT
                               !.agents_online = countOnlineAgents(list),
                               !.agents_offline = countOfflineAgents(list)]]
    /\ UNCHANGED <<now, svars, evars, rets, hvars, nvars, horizon, file>>

\* GET /api/v1/health, from GetActiveAlerts to the response (handler.go:141-153)
HandleHealthAlerts ==
    /\ http.request.path = "/api/v1/health"
    /\ http.status = 0
    /\ mu = "free"
    /\ http' = [http EXCEPT !.status = 200, !.report.active_alerts = ActiveAlertCount]
    /\ UNCHANGED <<now, svars, evars, rets, hvars, nvars, horizon, file>>

\* ------------------------------------------------------ the agent Sender
\* NewSender: three retries, a base backoff of 2 (seconds)
NewSender == [maxRetries |-> 3, retryBackoff |-> 2]

\* maxRetries and retryBackoff are fields of the Sender (the tests overwrite
\* retryBackoff after NewSender): any small setting, the default included
MaxRetries == 3
RetryBackoffs == {1, 2}
Senders == [maxRetries : 0..MaxRetries, retryBackoff : RetryBackoffs]

\* error values: nil, *HTTPError, the error of a failed exchange, ctx.Err(),
\* and fmt.Errorf("failed after %d retries: %w", ...) as the wrapped flag
NoErr == [kind |-> "nil", status |-> 0, wrapped |-> FALSE]
HTTPError(code) == [kind |-> "http", status |-> code, wrapped |-> FALSE]
TransportErr == [kind |-> "transport", status |-> 0, wrapped |-> FALSE]
CtxErr(c) == [kind |-> c, status |-> 0, wrapped |-> FALSE]
Wrap(e) == [e EXCEPT !.wrapped = TRUE]
Unwrap(e) == [e EXCEPT !.wrapped = FALSE]

\* what one exchange can end in: a response status, or 0 for no response
Statuses == {200, 400, 404, 429, 500, 503}
Outcomes == Statuses \cup {0}

\* send: nil on 2xx, *HTTPError on any other status, a plain error otherwise
send(r) ==
    IF r = 0 THEN TransportErr
    ELSE IF r >= 200 /\ r < 300 THEN NoErr
    ELSE HTTPError(r)

\* variant: every error status is retried
isRetryable_AnyStatus(err) == TRUE

isRetryable(err) ==
    IF err.kind = "http"
    THEN err.status >= 500 \/ err.status = 429
    ELSE TRUE

RECURSIVE Pow2(_)
Pow2(n) == IF n = 0 THEN 1 ELSE 2 * Pow2(n - 1)

\* variant: the wait grows by the base each time
backoff_Linear(attempt) == sender.retryBackoff * attempt

\* s.retryBackoff * time.Duration(1<<uint(attempt-1))
backoff(attempt) == sender.retryBackoff * Pow2(attempt - 1)

\* a call of sendWithRetry: where it is, the loop variable, lastErr, the
\* state of its context and its return value once pc = "done"
IdleCall == [pc |-> "idle", attempt |-> 0, lastErr |-> NoErr, ctx |-> "live", ret |-> NoErr]

SendEvent(k, r) == [kind |-> "send", attempt |-> k, n |-> r]
WaitEvent(k, d) == [kind |-> "wait", attempt |-> k, n |-> d]

\* PushMetrics / SendHeartbeat enter sendWithRetry with a live context
sendWithRetry ==
    /\ call.pc \in {"idle", "done"}
    /\ call' = [IdleCall EXCEPT !.pc = "send"]
    /\ wire' = <<>>
    /\ UNCHANGED <<now, svars, evars, rets, hvars, horizon, file, http, sender, run>>

\* variant: the loop runs while attempt < maxRetries
Attempt_OneFewer(r) ==
    /\ call.pc = "send"
    /\ call.ctx # "live" => r = 0
    /\ LET err == send(r)
       IN  /\ wire' = Append(wire, SendEvent(call.attempt, r))
           /\ call' =
                IF err = NoErr
                THEN [call EXCEPT !.pc = "done", !.ret = NoErr]
                ELSE IF ~isRetryable(err)
                THEN [call EXCEPT !.pc = "done", !.lastErr = err, !.ret = err]
                ELSE IF call.attempt + 1 >= sender.maxRetries
                THEN [call EXCEPT !.pc = "done", !.lastErr = err, !.ret = Wrap(err),
                                  !.attempt = @ + 1]
                ELSE [call EXCEPT !.pc = "wait", !.lastErr = err, !.attempt = @ + 1]
    /\ UNCHANGED <<now, svars, evars, rets, hvars, horizon, file, http, sender, run>>

\* one pass of the loop body from s.send to the loop test: an exchange that
\* starts with the context already done gets no response
Attempt(r) ==
    /\ call.pc = "send"
    /\ call.ctx # "live" => r = 0
    /\ LET err == send(r)
       IN  /\ wire' = Append(wire, SendEvent(call.attempt, r))
           /\ call' =
                IF err = NoErr
                THEN [call EXCEPT !.pc = "done", !.ret = NoErr]
                ELSE IF ~isRetryable(err)
                THEN [call EXCEPT !.pc = "done", !.lastErr = err, !.ret = err]
                ELSE IF call.attempt + 1 > sender.maxRetries
                THEN [call EXCEPT !.pc = "done", !.lastErr = err, !.ret = Wrap(err),
                                  !.attempt = @ + 1]
                ELSE [call EXCEPT !.pc = "wait", !.lastErr = err, !.attempt = @ + 1]
    /\ UNCHANGED <<now, svars, evars, rets, hvars, horizon, file, http, sender, run>>

\* variant: the timer branch is taken whatever the context
Backoff_IgnoreCtx ==
    /\ call.pc = "wait"
    /\ wire' = Append(wire, WaitEvent(call.attempt, backoff(call.attempt)))
    /\ call' = [call EXCEPT !.pc = "send"]
    /\ UNCHANGED <<now, svars, evars, rets, hvars, horizon, file, http, sender, run>>

\* the select, case <-time.After(backoff): the goroutine is parked on both
\* channels and the timer is the first to fire
Backoff ==
    /\ call.pc = "wait"
    /\ call.ctx = "live"
    /\ wire' = Append(wire, WaitEvent(call.attempt, backoff(call.attempt)))
    /\ call' = [call EXCEPT !.pc = "send"]
    /\ UNCHANGED <<now, svars, evars, rets, hvars, horizon, file, http, sender, run>>

\* the select, case <-ctx.Done(): return ctx.Err()
CtxDone ==
    /\ call.pc = "wait"
    /\ call.ctx # "live"
    /\ call' = [call EXCEPT !.pc = "done", !.ret = CtxErr(call.ctx)]
    /\ UNCHANGED <<now, svars, evars, rets, hvars, horizon, file, http, sender, wire, run>>

\* the caller cancels the context, or its deadline passes, during the call
Cancel(why) ==
    /\ call.pc \in {"send", "wait"}
    /\ call.ctx = "live"
    /\ call' = [call EXCEPT !.ctx = why]
    /\ UNCHANGED <<now, svars, evars, rets, hvars, horizon, file, http, sender, wire, run>>

\* ------------------------------------------------------ the agent loop
\* Agent.Run is one goroutine: a select over ctx.Done and the three tickers,
\* each case running its handler to completion before the next select.
AgentMaxTime == 4
CollectInterval == 1
PushInterval == 2
HeartbeatInterval == 3

\* in the select after the initial collectAndProcess; a ticker channel holds
\* at most one tick; due is the time the pending collection tick was sent
IdleAgent == [pc |-> "select", collectC |-> 0, pushC |-> 0, heartbeatC |-> 0,
              due |-> 0, lastMetrics |-> TRUE, slept |-> 0, dropped |-> 0]

\* the time sendWithRetry has spent in backoffs when retry k may start
TotalBackoff(k) == sender.retryBackoff * (Pow2(k) - 1)

\* a ticker sends on its channel when the interval elapses and drops the
\* tick if the previous one has not been received
Ticked(c, interval, t) == IF t % interval = 0 THEN 1 ELSE c

\* time passes while the loop is blocked: in the select with no channel
\* ready, in an exchange with the server, or in a backoff not yet over
AgentTime ==
    /\ now < horizon
    /\ \/ /\ run.pc = "select"
          /\ run.collectC = 0 /\ run.pushC = 0 /\ run.heartbeatC = 0
       \/ /\ run.pc # "select"
          /\ \/ call.pc = "send"
             \/ call.pc = "wait" /\ run.slept < TotalBackoff(call.attempt)
    /\ now' = now + 1
    /\ run' = [run EXCEPT
          !.collectC = Ticked(@, CollectInterval, now + 1),
          !.pushC = Ticked(@, PushInterval, now + 1),
          !.heartbeatC = Ticked(@, HeartbeatInterval, now + 1),
          !.due = IF run.collectC = 0 /\ (now + 1) % CollectInterval = 0
                  THEN now + 1 ELSE @,
          !.dropped = IF run.collectC = 1 /\ (now + 1) % CollectInterval = 0
                      THEN @ + 1 ELSE @,
          !.slept = IF run.pc # "select" /\ call.pc = "wait" THEN @ + 1 ELSE @]
    /\ UNCHANGED <<svars, evars, rets, hvars, horizon, file, http, sender, call, wire>>

\* case <-collectTicker.C: collectAndProcess, which sets lastMetrics
AgentCollect ==
    /\ run.pc = "select"
    /\ run.collectC = 1
    /\ run' = [run EXCEPT !.collectC = 0, !.lastMetrics = TRUE]
    /\ UNCHANGED <<now, svars, evars, rets, hvars, horizon, file, http, sender, call, wire>>

\* case <-pushTicker.C: pushMetrics(ctx) if there are metrics, called inline
AgentPush ==
    /\ run.pc = "select"
    /\ run.pushC = 1
    /\ IF run.lastMetrics
       THEN /\ run' = [run EXCEPT !.pushC = 0, !.pc = "push", !.slept = 0]
            /\ call' = [IdleCall EXCEPT !.pc = "send"]
            /\ wire' = <<>>
       ELSE /\ run' = [run EXCEPT !.pushC = 0]
            /\ UNCHANGED <<call, wire>>
    /\ UNCHANGED <<now, svars, evars, rets, hvars, horizon, file, http, sender>>

\* case <-heartbeatTicker.C: sendHeartbeat(ctx), called inline
AgentHeartbeat ==
    /\ run.pc = "select"
    /\ run.heartbeatC = 1
    /\ run' = [run EXCEPT !.heartbeatC = 0, !.pc = "heartbeat", !.slept = 0]
    /\ call' = [IdleCall EXCEPT !.pc = "send"]
    /\ wire' = <<>>
    /\ UNCHANGED <<now, svars, evars, rets, hvars, horizon, file, http, sender>>

\* the exchange of the call in progress ends
AgentAttempt(r) ==
    /\ run.pc # "select"
    /\ Attempt(r)

\* the backoff of the call in progress is over
AgentBackoff ==
    /\ run.pc # "select"
    /\ run.slept = TotalBackoff(call.attempt)
    /\ Backoff

\* the call returns; its error is logged and the loop selects again
AgentReturn ==
    /\ run.pc # "select"
    /\ call.pc = "done"
    /\ run' = [run EXCEPT !.pc = "select"]
    /\ call' = IdleCall
    /\ UNCHANGED <<now, svars, evars, rets, hvars, horizon, file, http, sender, wire>>

\* -------------------------------------------------------- specifications
Configs ==
    {[DeduplicationEnabled |-> e, DeduplicationWindow |-> w,
      HeartbeatTimeout |-> HeartbeatTimeout,
      SystemCPUThreshold |-> SystemCPUThreshold,
                 SystemMemoryThreshold |-> SystemMemoryThreshold,
                 SystemDiskThreshold |-> SystemDiskThreshold] : e \in BOOLEAN, w \in 1..MaxWindow}

InitState ==
    /\ http = IdleHttp
    /\ now = 0
    /\ mu = "free"
    /\ agents = <<>>
    /\ alerts = <<>>
    /\ req = [h \in Handlers |-> IdleReq]
    /\ nextId = 0
    /\ offline = {}
    /\ last = [op |-> "none", agent |-> ""]
    /\ added = <<>>
    /\ recentAlerts = <<>>
    /\ pc = "idle"
    /\ todo = <<>>
    /\ snapshot = <<>>
    /\ calls = <<>>
    /\ cycle = 0
    /\ rets = <<>>
    /\ heap = <<>>
    /\ root = <<>>
    /\ held = {}
    /\ index = <<>>
    /\ got = {}

\* no agent-side call in progress
InitSender ==
    /\ sender = NewSender
    /\ call = IdleCall
    /\ wire = <<>>
    /\ run = IdleAgent
    /\ file = NoFile

\* one sender with any retry settings, one call at a time
InitCall ==
    /\ InitState
    /\ sender \in Senders
    /\ call = IdleCall
    /\ wire = <<>>
    /\ run = IdleAgent
    /\ file = NoFile
    /\ horizon = StoreMaxTime
    /\ config = [DeduplicationEnabled |-> FALSE, DeduplicationWindow |-> 1,
                 HeartbeatTimeout |-> HeartbeatTimeout,
                 SystemCPUThreshold |-> SystemCPUThreshold,
                 SystemMemoryThreshold |-> SystemMemoryThreshold,
                 SystemDiskThreshold |-> SystemDiskThreshold]

NextSender ==
    \/ sendWithRetry
    \/ \E r \in Outcomes : Attempt(r)
    \/ Backoff
    \/ CtxDone
    \/ \E why \in {"canceled", "deadline"} : Cancel(why)

SpecSender == InitCall /\ [][NextSender]_vars

\* the agent loop with a sender of any retry settings
InitAgent ==
    /\ InitState
    /\ sender \in Senders
    /\ call = IdleCall
    /\ wire = <<>>
    /\ run = IdleAgent
    /\ file = NoFile
    /\ horizon = AgentMaxTime
    /\ config = [DeduplicationEnabled |-> FALSE, DeduplicationWindow |-> 1,
                 HeartbeatTimeout |-> HeartbeatTimeout,
                 SystemCPUThreshold |-> SystemCPUThreshold,
                 SystemMemoryThreshold |-> SystemMemoryThreshold,
                 SystemDiskThreshold |-> SystemDiskThreshold]

NextAgent ==
    \/ AgentTime
    \/ AgentCollect
    \/ AgentPush
    \/ AgentHeartbeat
    \/ \E r \in Outcomes : AgentAttempt(r)
    \/ AgentBackoff
    \/ AgentReturn

SpecAgent == InitAgent /\ [][NextAgent]_vars

\* one agent reporting one container, running or stopped, and the engine;
\* the pushes arrive between two evaluation cycles
StoppedMaxTime == 6
StoppedWindow == 3

StoppedStates ==
    {ServerState("a1", 50, <<ContainerState("c1", st, "", 0)>>, <<>>) :
        st \in {"running", "exited", "dead"}}

InitStopped ==
    /\ InitState
    /\ InitSender
    /\ horizon = StoppedMaxTime
    /\ config \in {[DeduplicationEnabled |-> e, DeduplicationWindow |-> StoppedWindow,
                    HeartbeatTimeout |-> StoppedMaxTime,
                    SystemCPUThreshold |-> SystemCPUThreshold,
                    SystemMemoryThreshold |-> SystemMemoryThreshold,
                    SystemDiskThreshold |-> SystemDiskThreshold] : e \in BOOLEAN}

NextStopped ==
    \/ pc = "idle" /\ HandleMetricsPush("h1", "a1")
    \/ \E st \in StoppedStates : UpdateAgentLock("h1", st)
    \/ UpdateAgentMerge("h1")
    \/ UpdateAgentStore("h1")
    \/ req["h1"].pc = "idle" /\ EngineCheckOffline
    \/ EngineGetAllAgents
    \/ EngineEvalAgent
    \/ EngineSendAlert
    \/ EngineCleanup

SpecStopped == InitStopped /\ [][NextStopped]_vars

\* one agent reporting CPU, memory and disks around the thresholds, under
\* every combination of set and unset (0) thresholds, and the engine
SystemMaxTime == 3
SystemWindow == 1
SystemDisks ==
    {<<DiskMetrics("/", 40), DiskMetrics("/data", 95)>>,
     <<DiskMetrics("/", 95), DiskMetrics("/data", 95)>>}
SystemLoads == {<<50, 50>>, <<SystemCPUThreshold, 90>>, <<85, SystemMemoryThreshold>>}
SystemStates ==
    {[ServerState("a1", l[1], <<>>, <<>>) EXCEPT !.Memory = l[2], !.Disk = d] :
        l \in SystemLoads, d \in SystemDisks}

InitSystem ==
    /\ InitState
    /\ InitSender
    /\ horizon = SystemMaxTime
    /\ config \in {[DeduplicationEnabled |-> e,
                    DeduplicationWindow |-> SystemWindow,
                    HeartbeatTimeout |-> SystemMaxTime,
                    SystemCPUThreshold |-> c,
                    SystemMemoryThreshold |-> m,
                    SystemDiskThreshold |-> d] :
                       e \in BOOLEAN,
                       c \in {0, SystemCPUThreshold},
                       m \in {0, SystemMemoryThreshold},
                       d \in {0, SystemDiskThreshold}}

NextSystem ==
    \/ HandleMetricsPush("h1", "a1")
    \/ \E st \in SystemStates : UpdateAgentLock("h1", st)
    \/ UpdateAgentMerge("h1")
    \/ UpdateAgentStore("h1")
    \/ EngineCheckOffline
    \/ EngineGetAllAgents
    \/ EngineEvalAgent
    \/ EngineSendAlert
    \/ EngineCleanup

SpecSystem == InitSystem /\ [][NextSystem]_vars

\* one agent reporting one running container whose health, CPU and memory
\* lie on either side of the container tests, and the engine
ContainerMaxTime == 4
ContainerWindow == 2
ContainerLoads ==
    {<<"healthy", 50, 50>>,
     <<"unhealthy", ContainerCPUHigh, ContainerMemoryHigh>>,
     <<"unhealthy", 95, 50>>,
     <<"healthy", 95, 97>>}
LoadedStates ==
    {ServerState("a1", 50,
                 <<[ContainerState("c1", "running", "", 0)
                      EXCEPT !.Health = l[1], !.CPUPercent = l[2],
                             !.MemoryPercent = l[3]]>>,
                 <<>>) : l \in ContainerLoads}

InitContainer ==
    /\ InitState
    /\ InitSender
    /\ horizon = ContainerMaxTime
    /\ config \in {[DeduplicationEnabled |-> e,
                    DeduplicationWindow |-> ContainerWindow,
                    HeartbeatTimeout |-> ContainerMaxTime,
                    SystemCPUThreshold |-> SystemCPUThreshold,
                    SystemMemoryThreshold |-> SystemMemoryThreshold,
                    SystemDiskThreshold |-> SystemDiskThreshold] : e \in BOOLEAN}

NextContainer ==
    \/ HandleMetricsPush("h1", "a1")
    \/ \E st \in LoadedStates : UpdateAgentLock("h1", st)
    \/ UpdateAgentMerge("h1")
    \/ UpdateAgentStore("h1")
    \/ EngineCheckOffline
    \/ EngineGetAllAgents
    \/ EngineEvalAgent
    \/ EngineSendAlert
    \/ EngineCleanup

SpecContainer == InitContainer /\ [][NextContainer]_vars

\* the two ingestion routes in front of the store: every request, and the
\* store calls the handlers make
ApiMaxTime == 2

InitApi ==
    /\ InitState
    /\ InitSender
    /\ horizon = ApiMaxTime
    /\ config = [DeduplicationEnabled |-> FALSE, DeduplicationWindow |-> 1,
                 HeartbeatTimeout |-> HeartbeatTimeout,
                 SystemCPUThreshold |-> SystemCPUThreshold,
                 SystemMemoryThreshold |-> SystemMemoryThreshold,
                 SystemDiskThreshold |-> SystemDiskThreshold]

NextApi ==
    \/ \E r \in MetricsRequests : ServeMetricsPush("h1", r)
    \/ \E st \in PushedStates : UpdateAgentLock("h1", st)
    \/ UpdateAgentMerge("h1")
    \/ UpdateAgentStore("h1")
    \/ \E r \in HeartbeatRequests : ServeHeartbeat(r)

SpecApi == InitApi /\ [][NextApi]_vars

\* the health route over a store under every store operation: a1 pushes
\* metrics and gets the alerts, a2 sends heartbeats
HealthMaxTime == 3

InitHealth ==
    /\ InitState
    /\ InitSender
    /\ horizon = HealthMaxTime
    /\ config = [DeduplicationEnabled |-> FALSE, DeduplicationWindow |-> 1,
                 HeartbeatTimeout |-> HeartbeatTimeout,
                 SystemCPUThreshold |-> SystemCPUThreshold,
                 SystemMemoryThreshold |-> SystemMemoryThreshold,
                 SystemDiskThreshold |-> SystemDiskThreshold]

NextHealth ==
    \/ HandleMetricsPush("h1", "a1")
    \/ \E st \in PushedStates : UpdateAgentLock("h1", st)
    \/ UpdateAgentMerge("h1")
    \/ UpdateAgentStore("h1")
    \/ UpdateHeartbeat("a2")
    \/ CallCheckOfflineAgents
    \/ CallAddAlert("a1")
    \/ \E i \in 1..MaxAlerts : ResolveAlert(i)
    \/ \E r \in HealthRequests : HandleHealth(r)
    \/ HandleHealthAlerts

SpecHealth == InitHealth /\ [][NextHealth]_vars

\* one agent whose CPU goes above and back below the threshold between two
\* evaluation cycles, and the engine
ResolveMaxTime == 4

InitResolve ==
    /\ InitState
    /\ InitSender
    /\ horizon = ResolveMaxTime
    /\ config \in {[DeduplicationEnabled |-> e,
                    DeduplicationWindow |-> 1,
                    HeartbeatTimeout |-> ResolveMaxTime,
                    SystemCPUThreshold |-> SystemCPUThreshold,
                    SystemMemoryThreshold |-> SystemMemoryThreshold,
                    SystemDiskThreshold |-> SystemDiskThreshold] : e \in BOOLEAN}

NextResolve ==
    \/ pc = "idle" /\ HandleMetricsPush("h1", "a1")
    \/ \E st \in PushedStates : UpdateAgentLock("h1", st)
    \/ UpdateAgentMerge("h1")
    \/ UpdateAgentStore("h1")
    \/ req["h1"].pc = "idle" /\ EngineCheckOffline
    \/ EngineGetAllAgents
    \/ EngineEvalAgent
    \/ EngineSendAlert
    \/ EngineCleanup

SpecResolve == InitResolve /\ [][NextResolve]_vars

\* the server started from a config file: LoadConfig, main's conversion to
\* the engine's Config, then pushes of one agent and the engine
ConfigMaxTime == 3

\* the alerting thresholds a config file can give; 0 is also what
\* yaml.Unmarshal leaves in a field the file does not mention
ConfigFiles ==
    {[given |-> TRUE, system_cpu_threshold |-> c,
      system_memory_threshold |-> m, system_disk_threshold |-> d] :
        c \in {0, 70, 100}, m \in {0, 60}, d \in {0, 95}}

\* LoadConfig, the threshold defaults of lines 564-572
LoadConfig(f) ==
    [SystemCPUThreshold |->
        IF f.system_cpu_threshold = 0 THEN SystemCPUThreshold
        ELSE f.system_cpu_threshold,
     SystemMemoryThreshold |->
        IF f.system_memory_threshold = 0 THEN SystemMemoryThreshold
        ELSE f.system_memory_threshold,
     SystemDiskThreshold |->
        IF f.system_disk_threshold = 0 THEN SystemDiskThreshold
        ELSE f.system_disk_threshold]

\* main: the alerting.Config built from the loaded configuration; the file's
\* deduplication and timeout settings are the same in every run
AlertConfig(cfg) ==
    [DeduplicationEnabled |-> TRUE,
     DeduplicationWindow |-> ConfigMaxTime,
     HeartbeatTimeout |-> ConfigMaxTime,
     SystemCPUThreshold |-> cfg.SystemCPUThreshold,
     SystemMemoryThreshold |-> cfg.SystemMemoryThreshold,
     SystemDiskThreshold |-> cfg.SystemDiskThreshold]

InitConfig ==
    /\ InitState
    /\ sender = NewSender
    /\ call = IdleCall
    /\ wire = <<>>
    /\ run = IdleAgent
    /\ horizon = ConfigMaxTime
    /\ file \in ConfigFiles
    /\ config = AlertConfig(LoadConfig(file))

NextConfig ==
    \/ HandleMetricsPush("h1", "a1")
    \/ \E st \in PushedStates : UpdateAgentLock("h1", st)
    \/ UpdateAgentMerge("h1")
    \/ UpdateAgentStore("h1")
    \/ EngineCheckOffline
    \/ EngineGetAllAgents
    \/ EngineEvalAgent
    \/ EngineSendAlert
    \/ EngineCleanup

SpecConfig == InitConfig /\ [][NextConfig]_vars

\* two agents with the CPU above the threshold, pushed between two
\* evaluation cycles, and the engine with a Notifier that may fail
CycleMaxTime == 4
CycleStates == {ServerState(a, 85, <<>>, <<>>) : a \in Agents}

InitCycle ==
    /\ InitState
    /\ InitSender
    /\ horizon = CycleMaxTime
    /\ config \in {[DeduplicationEnabled |-> e,
                    DeduplicationWindow |-> 1,
                    HeartbeatTimeout |-> CycleMaxTime,
                    SystemCPUThreshold |-> SystemCPUThreshold,
                    SystemMemoryThreshold |-> SystemMemoryThreshold,
                    SystemDiskThreshold |-> SystemDiskThreshold] : e \in BOOLEAN}

NextCycle ==
    \/ \E a \in Agents : pc = "idle" /\ HandleMetricsPush("h1", a)
    \/ \E st \in CycleStates : UpdateAgentLock("h1", st)
    \/ UpdateAgentMerge("h1")
    \/ UpdateAgentStore("h1")
    \/ req["h1"].pc = "idle" /\ EngineCheckOffline
    \/ EngineGetAllAgents
    \/ EngineEvalAgent
    \/ EngineSendAlert
    \/ EngineCleanup

SpecCycle == InitCycle /\ [][NextCycle]_vars

\* the collector: ingestion goroutines and the engine's ticker loop
Init ==
    /\ InitState
    /\ InitSender
    /\ horizon = MaxTime
    /\ config \in Configs

Next ==
    \/ Tick
    \/ \E a \in PushAgents : HandleMetricsPush("h1", a)
    \/ \E st \in PushedStates : UpdateAgentLock("h1", st)
    \/ UpdateAgentMerge("h1")
    \/ UpdateAgentStore("h1")
    \/ \E a \in Agents : UpdateHeartbeat(a)
    \/ EngineCheckOffline
    \/ EngineOfflineAlert
    \/ EngineGetAllAgents
    \/ EngineEvalAgent
    \/ EngineSendAlert
    \/ EngineCleanup

Spec == Init /\ [][Next]_vars

\* the store under direct calls from concurrent goroutines
InitStore ==
    /\ InitState
    /\ InitSender
    /\ horizon = StoreMaxTime
    /\ config = [DeduplicationEnabled |-> FALSE, DeduplicationWindow |-> 1,
                 HeartbeatTimeout |-> HeartbeatTimeout,
                 SystemCPUThreshold |-> SystemCPUThreshold,
                 SystemMemoryThreshold |-> SystemMemoryThreshold,
                 SystemDiskThreshold |-> SystemDiskThreshold]

NextStore ==
    \/ Tick
    \/ \E h \in Handlers, a \in PushAgents : HandleMetricsPush(h, a)
    \/ \E h \in Handlers, st \in StoreStates : UpdateAgentLock(h, st)
    \/ \E h \in Handlers : UpdateAgentMerge(h)
    \/ \E h \in Handlers : UpdateAgentStore(h)
    \/ \E a \in Agents : UpdateHeartbeat(a)
    \/ CallCheckOfflineAgents
    \/ \E a \in Agents : CallAddAlert(a)
    \/ \E i \in 1..MaxAlerts : ResolveAlert(i)

SpecStore == InitStore /\ [][NextStore]_vars

\* UpdateAgent's container merge under pushes for every agent
NextMerge ==
    \/ Tick
    \/ \E a \in Agents : HandleMetricsPush("h1", a)
    \/ \E st \in MergeStates : UpdateAgentLock("h1", st)
    \/ UpdateAgentMerge("h1")
    \/ UpdateAgentStore("h1")
    \/ \E a \in Agents : UpdateHeartbeat(a)

SpecMerge == InitStore /\ [][NextMerge]_vars

\* ------------------------------------------- shouldSendAlert on its own
\* markAlertSent(key), as after a delivered notification
DedupMark(k) ==
    /\ recentAlerts' = markAlertSent(k)
    /\ UNCHANGED <<now, svars, config, pc, todo, snapshot, calls, cycle, xvars>>

\* shouldSendAlert(key): the result, with the time and the entry it was asked at
DedupCheck(k) ==
    /\ Len(rets) < MaxChecks
    /\ rets' = Append(rets, [key |-> k, at |-> now,
                             had |-> k \in DOMAIN recentAlerts,
                             lastSent |-> IF k \in DOMAIN recentAlerts
                                          THEN recentAlerts[k] ELSE 0,
                             ret |-> shouldSendAlert(k)])
    /\ UNCHANGED <<now, svars, evars, hvars, nvars, horizon, file, http>>

\* cleanupDeduplication at the end of a cycle
DedupCleanup ==
    /\ recentAlerts' = cleanupDeduplication
    /\ UNCHANGED <<now, svars, config, pc, todo, snapshot, calls, cycle, xvars>>

DedupKeys == {Key("system_cpu", "a1", "")}

InitDedup ==
    /\ InitState
    /\ InitSender
    /\ horizon = DedupMaxTime
    /\ config \in {[DeduplicationEnabled |-> e, DeduplicationWindow |-> w,
                    HeartbeatTimeout |-> HeartbeatTimeout,
                    SystemCPUThreshold |-> SystemCPUThreshold,
                 SystemMemoryThreshold |-> SystemMemoryThreshold,
                 SystemDiskThreshold |-> SystemDiskThreshold] :
                        e \in BOOLEAN, w \in DedupWindows}

NextDedup ==
    \/ Tick
    \/ \E k \in DedupKeys : DedupMark(k)
    \/ \E k \in DedupKeys : DedupCheck(k)
    \/ DedupCleanup

SpecDedup == InitDedup /\ [][NextDedup]_vars

\* two deduplication keys marked, consulted and swept at any time
SweepMaxTime == 4
SweepWindows == {1, 2}
SweepKeys == {Key("system_cpu", "a1", ""), Key("agent_offline", "a2", "")}

InitSweep ==
    /\ InitState
    /\ InitSender
    /\ horizon = SweepMaxTime
    /\ config \in {[DeduplicationEnabled |-> e, DeduplicationWindow |-> w,
                    HeartbeatTimeout |-> HeartbeatTimeout,
                    SystemCPUThreshold |-> SystemCPUThreshold,
                    SystemMemoryThreshold |-> SystemMemoryThreshold,
                    SystemDiskThreshold |-> SystemDiskThreshold] :
                        e \in BOOLEAN, w \in SweepWindows}

NextSweep ==
    \/ Tick
    \/ \E k \in SweepKeys : DedupMark(k)
    \/ \E k \in SweepKeys : DedupCheck(k)
    \/ DedupCleanup

SpecSweep == InitSweep /\ [][NextSweep]_vars

\* one agent that heartbeats, falls silent and comes back, under the engine
\* with a deduplication window longer than one outage
OutageMaxTime == 7
OutageWindow == 3

InitOutage ==
    /\ InitState
    /\ InitSender
    /\ horizon = OutageMaxTime
    /\ config \in {[DeduplicationEnabled |-> e,
                    DeduplicationWindow |-> OutageWindow,
                    HeartbeatTimeout |-> HeartbeatTimeout,
                    SystemCPUThreshold |-> SystemCPUThreshold,
                    SystemMemoryThreshold |-> SystemMemoryThreshold,
                    SystemDiskThreshold |-> SystemDiskThreshold] : e \in BOOLEAN}

NextOutage ==
    \/ Tick
    \/ UpdateHeartbeat("a2")
    \/ EngineCheckOffline
    \/ EngineOfflineAlert
    \/ EngineGetAllAgents
    \/ EngineCleanup

SpecOutage == InitOutage /\ [][NextOutage]_vars

\* one agent whose container is first reported running and then running or
\* exited in any order, and the engine; the pushes arrive between two cycles
RestartMaxTime == 5

RestartStates ==
    {ServerState("a1", 50, <<ContainerState("c1", st, "", 0)>>, <<>>) :
        st \in {"running", "exited"}}

InitRestart ==
    /\ InitState
    /\ InitSender
    /\ horizon = RestartMaxTime
    /\ config \in {[DeduplicationEnabled |-> e, DeduplicationWindow |-> 1,
                    HeartbeatTimeout |-> RestartMaxTime,
                    SystemCPUThreshold |-> SystemCPUThreshold,
                    SystemMemoryThreshold |-> SystemMemoryThreshold,
                    SystemDiskThreshold |-> SystemDiskThreshold] : e \in BOOLEAN}

NextRestart ==
    \/ pc = "idle" /\ HandleMetricsPush("h1", "a1")
    \/ \E st \in RestartStates :
          /\ "a1" \in DOMAIN agents \/ st.Containers[1].State = "running"
          /\ UpdateAgentLock("h1", st)
    \/ UpdateAgentMerge("h1")
    \/ UpdateAgentStore("h1")
    \/ req["h1"].pc = "idle" /\ EngineCheckOffline
    \/ EngineGetAllAgents
    \/ EngineEvalAgent
    \/ EngineSendAlert
    \/ EngineCleanup

SpecRestart == InitRestart /\ [][NextRestart]_vars

\* one agent reporting none, one or both of two containers, in either order
ReplaceMaxTime == 3
ReplaceIds == {"c1", "c2"}

ReplaceLists ==
    {<<>>}
    \cup {<<ContainerState(id, st, "", 0)>> : id \in ReplaceIds, st \in ContainerStates}
    \cup {<<ContainerState(ids[1], s1, "", 0), ContainerState(ids[2], s2, "", 0)>> :
              ids \in {<<"c1", "c2">>, <<"c2", "c1">>},
              s1 \in ContainerStates, s2 \in ContainerStates}

ReplaceStates == {ServerState("a1", 50, cs, <<>>) : cs \in ReplaceLists}

InitReplace ==
    /\ InitState
    /\ InitSender
    /\ horizon = ReplaceMaxTime
    /\ config = [DeduplicationEnabled |-> FALSE, DeduplicationWindow |-> 1,
                 HeartbeatTimeout |-> HeartbeatTimeout,
                 SystemCPUThreshold |-> SystemCPUThreshold,
                 SystemMemoryThreshold |-> SystemMemoryThreshold,
                 SystemDiskThreshold |-> SystemDiskThreshold]

NextReplace ==
    \/ HandleMetricsPush("h1", "a1")
    \/ \E st \in ReplaceStates : UpdateAgentLock("h1", st)
    \/ UpdateAgentMerge("h1")
    \/ UpdateAgentStore("h1")

SpecReplace == InitReplace /\ [][NextReplace]_vars

\* --------------------------------------- the store's values on the heap
\* A slice, a map and a pointer are addresses into `heap`; 0 is nil.  A
\* ServerState object holds its scalar fields and the addresses of the
\* backing arrays of SystemMetrics.Disk, Containers and ActiveAlerts; an
\* Alert in an array holds the addresses of its Details map and NotifiedAt.
HeapState(a, disk, cs, al) ==
    [AgentName |-> a, Status |-> "online", CPU |-> 50,
     Disk |-> disk, Containers |-> cs, ActiveAlerts |-> al]

HeapAlert(id, a, details, notified) ==
    [ID |-> id, AgentName |-> a, Status |-> "active",
     Details |-> details, NotifiedAt |-> notified]

\* the cells a list needs: none for a nil slice
Cells(list) == IF list = <<>> THEN <<>> ELSE <<list>>

\* the address of the cell Cells(list) puts right after base
Ref(list, base) == IF list = <<>> THEN 0 ELSE base + 1

\* what a read of the object at p shows, every reference followed
Deep(h, p) ==
    LET s == h[p]
        al == IF s.ActiveAlerts = 0 THEN <<>> ELSE h[s.ActiveAlerts]
    IN  [AgentName |-> s.AgentName, Status |-> s.Status, CPU |-> s.CPU,
         Disk |-> IF s.Disk = 0 THEN <<>> ELSE h[s.Disk],
         Containers |-> IF s.Containers = 0 THEN <<>> ELSE h[s.Containers],
         ActiveAlerts |->
             [i \in DOMAIN al |->
                 [ID |-> al[i].ID, Status |-> al[i].Status,
                  Details |-> IF al[i].Details = 0 THEN <<>> ELSE h[al[i].Details],
                  NotifiedAt |-> IF al[i].NotifiedAt = 0 THEN 0
                                 ELSE h[al[i].NotifiedAt]]]]

\* ServerState.Clone of the object at p: the cells it allocates, the new
\* object last.  Scalars and SystemMetrics are copied by value, so the Disk
\* slice keeps its backing array; Containers and ActiveAlerts get new arrays,
\* each Details map a new map, and the Alert copy keeps its timestamp pointer.
Clone(h, p) ==
    LET s == h[p]
        base == Len(h)
        cs == IF s.Containers = 0 THEN <<>> ELSE h[s.Containers]
        al == IF s.ActiveAlerts = 0 THEN <<>> ELSE h[s.ActiveAlerts]
        nC == Len(Cells(cs))
        rank(i) == Cardinality({j \in 1..i : al[j].Details # 0})
        nM == rank(Len(al))
        maps == [k \in 1..nM |->
                    h[al[CHOOSE i \in DOMAIN al :
                             al[i].Details # 0 /\ rank(i) = k].Details]]
        newAl == [i \in DOMAIN al |->
                     IF al[i].Details # 0
                     THEN [al[i] EXCEPT !.Details = base + nC + rank(i)]
                     ELSE al[i]]
    IN  Cells(cs) \o maps \o Cells(newAl) \o
        <<[s EXCEPT !.Containers = Ref(cs, base),
                    !.ActiveAlerts = Ref(newAl, base + nC + nM)]>>

\* UpdateAgent with a state the caller built: its Disk list, its containers
HeapUpdateAgent(a, disk, cs) ==
    /\ LET base == Len(heap)
           cells == Cells(disk) \o Cells(cs)
           al == IF a \in DOMAIN root THEN heap[root[a]].ActiveAlerts ELSE 0
           obj == HeapState(a, Ref(disk, base), Ref(cs, base + Len(Cells(disk))), al)
       IN  /\ Len(heap) + Len(cells) + 1 <= MaxCells
           /\ heap' = heap \o cells \o <<obj>>
           /\ root' = [x \in DOMAIN root \cup {a} |->
                          IF x = a THEN Len(heap') ELSE root[x]]
    /\ UNCHANGED <<now, svars, evars, rets, nvars, horizon, file, http, held, index, got>>

\* AddAlert: the index keeps the caller's Alert object, whose Details map and
\* timestamp are the caller's; for a known agent append copies the Alert
\* struct into the run's list
HeapAddAlert(a, withDetails, withNotified) ==
    /\ 1 \notin DOMAIN index
    /\ LET base == Len(heap)
           details == IF withDetails THEN <<1>> ELSE <<>>
           stamp == IF withNotified THEN <<1>> ELSE <<>>
           alert == HeapAlert(1, a, Ref(details, base),
                              Ref(stamp, base + Len(Cells(details))))
           obj == base + Len(Cells(details)) + Len(stamp) + 1
           known == a \in DOMAIN root
           list == IF known /\ heap[root[a]].ActiveAlerts # 0
                   THEN heap[heap[root[a]].ActiveAlerts] ELSE <<>>
           cells == Cells(details) \o stamp \o <<alert>> \o
                    (IF known THEN <<Append(list, alert)>> ELSE <<>>)
       IN  /\ Len(heap) + Len(cells) <= MaxCells
           /\ heap' = IF known
                      THEN [heap \o cells EXCEPT ![root[a]].ActiveAlerts = base + Len(cells)]
                      ELSE heap \o cells
           /\ index' = [i \in DOMAIN index \cup {1} |-> IF i = 1 THEN obj ELSE index[i]]
    /\ UNCHANGED <<now, svars, evars, rets, nvars, horizon, file, http, root, held, got>>

\* GetAgent: the reader gets a pointer to a Clone
GetAgent(a) ==
    /\ a \in DOMAIN root
    /\ Cardinality(held) < MaxReads
    /\ Len(heap) + Len(Clone(heap, root[a])) <= MaxCells
    /\ heap' = heap \o Clone(heap, root[a])
    /\ held' = held \cup {Len(heap')}
    /\ UNCHANGED <<now, svars, evars, rets, nvars, horizon, file, http, root, index, got>>

\* GetAllAgents: a Clone of every agent, in the map's iteration order
RECURSIVE CloneAll(_, _)
CloneAll(h, ps) ==
    IF ps = <<>> THEN <<>>
    ELSE LET cells == Clone(h, Head(ps))
         IN  cells \o CloneAll(h \o cells, Tail(ps))

RECURSIVE Ends(_, _, _)
Ends(h, ps, base) ==
    IF ps = <<>> THEN {}
    ELSE LET n == Len(Clone(h, Head(ps)))
         IN  {base + n} \cup Ends(h \o Clone(h, Head(ps)), Tail(ps), base + n)

GetAllAgents ==
    /\ DOMAIN root # {}
    /\ \E o \in Orders(DOMAIN root) :
          LET ps == [i \in DOMAIN o |-> root[o[i]]]
          IN  /\ Cardinality(held) + Len(ps) <= MaxReads
              /\ Len(heap) + Len(CloneAll(heap, ps)) <= MaxCells
              /\ heap' = heap \o CloneAll(heap, ps)
              /\ held' = held \cup Ends(heap, ps, Len(heap))
    /\ UNCHANGED <<now, svars, evars, rets, nvars, horizon, file, http, root, index, got>>

\* the reader writes to the value it got: a field of the object, or through
\* one of its slices, maps or pointers
Fields == {"Status", "CPU", "Disk", "Containers", "ActiveAlerts",
           "Disk[0]", "Containers[0]", "ActiveAlerts[0].Status",
           "ActiveAlerts[0].Details[k]", "*ActiveAlerts[0].NotifiedAt"}

Mutate(p, f) ==
    /\ p \in held
    /\ LET s == heap[p]
           al == IF s.ActiveAlerts = 0 THEN <<>> ELSE heap[s.ActiveAlerts]
       IN  CASE f = "Status" ->
                  /\ s.Status # "mutated"
                  /\ heap' = [heap EXCEPT ![p].Status = "mutated"]
             [] f = "CPU" ->
                  /\ s.CPU # 99
                  /\ heap' = [heap EXCEPT ![p].CPU = 99]
             [] f \in {"Disk", "Containers", "ActiveAlerts"} ->
                  /\ s[f] # 0
                  /\ heap' = [heap EXCEPT ![p][f] = 0]
             [] f = "Disk[0]" ->
                  /\ s.Disk # 0
                  /\ heap[s.Disk][1] # 99
                  /\ heap' = [heap EXCEPT ![s.Disk][1] = 99]
             [] f = "Containers[0]" ->
                  /\ s.Containers # 0
                  /\ heap[s.Containers][1] # "mutated"
                  /\ heap' = [heap EXCEPT ![s.Containers][1] = "mutated"]
             [] f = "ActiveAlerts[0].Status" ->
                  /\ al # <<>>
                  /\ al[1].Status # "mutated"
                  /\ heap' = [heap EXCEPT ![s.ActiveAlerts][1].Status = "mutated"]
             [] f = "ActiveAlerts[0].Details[k]" ->
                  /\ al # <<>>
                  /\ al[1].Details # 0
                  /\ heap[al[1].Details][1] # 99
                  /\ heap' = [heap EXCEPT ![al[1].Details][1] = 99]
             [] f = "*ActiveAlerts[0].NotifiedAt" ->
                  /\ al # <<>>
                  /\ al[1].NotifiedAt # 0
                  /\ heap[al[1].NotifiedAt] # 99
                  /\ heap' = [heap EXCEPT ![al[1].NotifiedAt] = 99]
    /\ UNCHANGED <<now, svars, evars, rets, nvars, horizon, file, http, root, held, index, got>>

\* what a read of the Alert object at p shows, every reference followed
DeepAlert(h, p) ==
    [ID |-> h[p].ID, AgentName |-> h[p].AgentName, Status |-> h[p].Status,
     Details |-> IF h[p].Details = 0 THEN <<>> ELSE h[h[p].Details],
     NotifiedAt |-> IF h[p].NotifiedAt = 0 THEN 0 ELSE h[h[p].NotifiedAt]]

\* alertCopy := *alert for each alert of ids, in the map's iteration order:
\* a new Alert struct with the same fields, references included
CopyAlerts(h, ids) == [i \in DOMAIN ids |-> h[index[ids[i]]]]

\* the accessors' common body: copy the alerts that pass the filter
ReturnCopies(S) ==
    /\ Cardinality(got) + Cardinality(S) <= MaxReads
    /\ Len(heap) + Cardinality(S) <= MaxCells
    /\ \E o \in Orders(S) :
          /\ heap' = heap \o CopyAlerts(heap, o)
          /\ got' = got \cup {Len(heap) + i : i \in 1..Cardinality(S)}
    /\ UNCHANGED <<now, svars, evars, rets, nvars, horizon, file, http, root, held, index>>

GetAlert(alertID) ==
    /\ alertID \in DOMAIN index
    /\ ReturnCopies({alertID})

GetActiveAlerts ==
    ReturnCopies({i \in DOMAIN index : heap[index[i]].Status = "active"})

GetAlertsByAgent(agentName) ==
    ReturnCopies({i \in DOMAIN index : heap[index[i]].AgentName = agentName})

\* the reader writes to an Alert it got: a field, or through its map or pointer
AlertFields == {"Status", "Details", "NotifiedAt", "Details[k]", "*NotifiedAt"}

MutateAlert(p, f) ==
    /\ p \in got
    /\ LET al == heap[p]
       IN  CASE f = "Status" ->
                  /\ al.Status # "mutated"
                  /\ heap' = [heap EXCEPT ![p].Status = "mutated"]
             [] f \in {"Details", "NotifiedAt"} ->
                  /\ al[f] # 0
                  /\ heap' = [heap EXCEPT ![p][f] = 0]
             [] f = "Details[k]" ->
                  /\ al.Details # 0
                  /\ heap[al.Details][1] # 99
                  /\ heap' = [heap EXCEPT ![al.Details][1] = 99]
             [] f = "*NotifiedAt" ->
                  /\ al.NotifiedAt # 0
                  /\ heap[al.NotifiedAt] # 99
                  /\ heap' = [heap EXCEPT ![al.NotifiedAt] = 99]
    /\ UNCHANGED <<now, svars, evars, rets, nvars, horizon, file, http, root, held, index, got>>

NextAlertCopy ==
    \/ \E a \in PushAgents : HeapUpdateAgent(a, <<>>, <<>>)
    \/ \E a \in PushAgents, d \in BOOLEAN, n \in BOOLEAN : HeapAddAlert(a, d, n)
    \/ \E i \in 1..MaxAlerts : GetAlert(i)
    \/ GetActiveAlerts
    \/ \E a \in Agents : GetAlertsByAgent(a)
    \/ \E p \in got, f \in AlertFields : MutateAlert(p, f)

SpecAlertCopy == InitStore /\ [][NextAlertCopy]_vars

NextCopy ==
    \/ \E a \in PushAgents, disk \in DiskLists, cs \in ContainerLists :
          HeapUpdateAgent(a, disk, cs)
    \/ \E a \in PushAgents, d \in BOOLEAN, n \in BOOLEAN : HeapAddAlert(a, d, n)
    \/ \E a \in PushAgents : GetAgent(a)
    \/ GetAllAgents
    \/ \E p \in held, f \in Fields : Mutate(p, f)

SpecCopy == InitStore /\ [][NextCopy]_vars

\* ============================================================ properties
\* ------------------------------------------------------------------- C1
\* C1: when an agent_offline notification fails in one cycle and the agent
\* stays offline with no push or heartbeat since, the next cycle's offline
\* phase calls the Notifier for that agent again.
C1_OfflineRetryNextCycle ==
    \A i \in DOMAIN calls :
        LET c == calls[i]
            a == c.key.agent
        IN  ( /\ c.key.kind = "agent_offline"
              /\ ~c.ok
              /\ a \in DOMAIN agents
              /\ agents[a].Status = "offline"
              /\ agents[a].LastSeen < c.at
              /\ cycle > c.cycle
              /\ ~(cycle = c.cycle + 1 /\ pc = "offline") )
            => \E j \in DOMAIN calls :
                  calls[j].key = c.key /\ calls[j].cycle = c.cycle + 1

\* ------------------------------------------------------------------- C2
\* C2: every SendAlert call that fails leaves recentAlerts as it was, every
\* call that succeeds leaves the key's entry equal to the time of the send,
\* and no entry appears or changes except by a successful call for its key.
C2_MarkOnlyOnSuccess ==
    [][ /\ (Len(calls') = Len(calls) + 1 =>
              LET c == calls'[Len(calls')]
              IN  IF c.ok
                  THEN c.key \in DOMAIN recentAlerts' /\ recentAlerts'[c.key] = c.at
                  ELSE recentAlerts' = recentAlerts)
        /\ \A k \in DOMAIN recentAlerts' :
              (k \notin DOMAIN recentAlerts \/ recentAlerts'[k] # recentAlerts[k]) =>
                  /\ Len(calls') = Len(calls) + 1
                  /\ calls'[Len(calls')].ok
                  /\ calls'[Len(calls')].key = k ]_vars

\* a failed and a successful send, one from each of the two send paths
C2_Witness ==
    \E i, j \in DOMAIN calls :
        /\ ~calls[i].ok
        /\ calls[i].key \notin DOMAIN recentAlerts
        /\ calls[j].ok
        /\ calls[j].key \in DOMAIN recentAlerts
        /\ recentAlerts[calls[j].key] = calls[j].at
        /\ {calls[i].key.kind, calls[j].key.kind} = {"agent_offline", "system_cpu"}

\* ------------------------------------------------------------------- C3
\* C3: the alert of every failed SendAlert call is in the store's id index
\* with status active and in its run's active-alert list.
C3_FailedAlertStaysActive ==
    \A i \in DOMAIN calls :
        ~calls[i].ok =>
            /\ calls[i].id \in DOMAIN alerts
            /\ alerts[calls[i].id].Status = "active"
            /\ LET a == alerts[calls[i].id].AgentName
               IN  a \in DOMAIN agents =>
                      \E n \in DOMAIN agents[a].ActiveAlerts :
                          agents[a].ActiveAlerts[n].ID = calls[i].id

\* a failed system alert and a failed agent_offline alert, both stored
C3_Witness ==
    \E i, j \in DOMAIN calls :
        /\ ~calls[i].ok /\ calls[i].key.kind = "system_cpu"
        /\ ~calls[j].ok /\ calls[j].key.kind = "agent_offline"
        /\ calls[i].id \in DOMAIN alerts
        /\ calls[j].id \in DOMAIN alerts

\* ------------------------------------------------------------------- C4
\* C4: with deduplication enabled, any two successful sends for the same key
\* are more than one DeduplicationWindow apart.
C4_OnePerWindow ==
    config.DeduplicationEnabled =>
        \A i, j \in DOMAIN calls :
            (i < j /\ calls[i].ok /\ calls[j].ok /\ calls[i].key = calls[j].key)
                => calls[j].at - calls[i].at > config.DeduplicationWindow

\* two successful sends for one key in different cycles, a sweep in between
C4_Witness ==
    /\ config.DeduplicationEnabled
    /\ \E i, j \in DOMAIN calls :
          /\ i < j /\ calls[i].ok /\ calls[j].ok
          /\ calls[i].key = calls[j].key
          /\ calls[i].cycle < calls[j].cycle

\* ------------------------------------------------------------------- C6
\* C6: when UpdateAgent replaces the state of an existing agent, a container
\* present before and after whose state differs has previous_state equal to
\* the state stored before and a strictly newer last_state_change; one whose
\* state is the same has both fields equal to the values stored before.
C6_MergeTransitions ==
    [][ \A h \in Handlers :
          (req[h].pc = "merged" /\ req'[h].pc = "idle" /\ req[h].existing) =>
              LET a == req[h].state.AgentName
                  old == agents[a].Containers
                  new == agents'[a].Containers
              IN  \A i \in DOMAIN old, j \in DOMAIN new :
                      old[i].ID = new[j].ID =>
                          IF new[j].State # old[i].State
                          THEN /\ new[j].PreviousState = old[i].State
                               /\ new[j].LastStateChange > old[i].LastStateChange
                          ELSE /\ new[j].PreviousState = old[i].PreviousState
                               /\ new[j].LastStateChange = old[i].LastStateChange ]_vars

\* the last call was an UpdateAgent that recorded a running -> exited change
C6_Witness ==
    /\ last.op = "UpdateAgent"
    /\ \E n \in DOMAIN agents[last.agent].Containers :
          LET c == agents[last.agent].Containers[n]
          IN  /\ c.State = "exited"
              /\ c.PreviousState = "running"
              /\ c.LastStateChange = agents[last.agent].LastSeen

\* ------------------------------------------------------------------- C7
\* C7: when UpdateAgent replaces the state of an existing agent, the stored
\* active-alert list after the call equals the stored list before it.
C7_UpdateKeepsAlerts ==
    [][ \A h \in Handlers :
          (req[h].pc = "merged" /\ req'[h].pc = "idle" /\ req[h].existing) =>
              LET a == req[h].state.AgentName
              IN  agents'[a].ActiveAlerts = agents[a].ActiveAlerts ]_vars

\* the last call was an UpdateAgent on an agent holding an alert from AddAlert
C7_Witness ==
    /\ last.op = "UpdateAgent"
    /\ \E n \in DOMAIN agents[last.agent].ActiveAlerts :
          agents[last.agent].ActiveAlerts[n].ID \in DOMAIN alerts

\* ------------------------------------------------------------------- C8
\* C8: an alert added for an agent the store knew is in the id index and, as
\* long as it is active, exactly once in that run's list and in no other
\* run's list; once resolved it is in no list.
C8_IndexAndList ==
    \A id \in DOMAIN added :
        /\ id \in DOMAIN alerts
        /\ added[id].listed =>
              \A a \in DOMAIN agents :
                  Cardinality({n \in DOMAIN agents[a].ActiveAlerts :
                                  agents[a].ActiveAlerts[n].ID = id})
                  = IF a = alerts[id].AgentName /\ alerts[id].Status = "active"
                    THEN 1 ELSE 0

\* an active and a resolved alert of one agent, after a later UpdateAgent
C8_Witness ==
    /\ last.op = "UpdateAgent"
    /\ \E i, j \in DOMAIN added :
          /\ added[i].listed /\ alerts[i].Status = "active"
          /\ added[j].listed /\ alerts[j].Status = "resolved"
          /\ alerts[i].AgentName = last.agent
          /\ alerts[j].AgentName = last.agent

\* ------------------------------------------------------------------- C9
\* C9: at most one UpdateAgent is inside its critical section at a time, and
\* an active alert added while a push for its agent was in flight is in the
\* run's list once no push for that agent is in flight any more.
C9_NoLostAlert ==
    /\ Cardinality({h \in Handlers : req[h].pc \in {"locked", "merged"}}) <= 1
    /\ \A id \in DOMAIN added :
          ( /\ added[id].overlap
            /\ added[id].listed
            /\ alerts[id].Status = "active"
            /\ \A h \in Handlers :
                  req[h].pc = "idle" \/ req[h].state.AgentName # alerts[id].AgentName )
          => \E n \in DOMAIN agents[alerts[id].AgentName].ActiveAlerts :
                agents[alerts[id].AgentName].ActiveAlerts[n].ID = id

\* an alert added during a push, the push has completed, the alert is listed
C9_Witness ==
    /\ last.op = "UpdateAgent"
    /\ \A h \in Handlers : req[h].pc = "idle"
    /\ \E id \in DOMAIN added :
          /\ added[id].overlap
          /\ added[id].listed
          /\ alerts[id].AgentName = last.agent
          /\ \E n \in DOMAIN agents[last.agent].ActiveAlerts :
                agents[last.agent].ActiveAlerts[n].ID = id

\* ------------------------------------------------------------------- C5
\* C5: every shouldSendAlert call returned true exactly when deduplication
\* was disabled, or the key had no entry, or more than DeduplicationWindow
\* had elapsed since the entry; with a window of 5 a key marked at T was
\* refused at T+1 and accepted at T+6.
C5_ShouldSendExactly ==
    \A i \in DOMAIN rets :
        LET r == rets[i]
            elapsed == r.at - r.lastSent
        IN  /\ r.ret <=> ( \/ ~config.DeduplicationEnabled
                           \/ ~r.had
                           \/ elapsed > config.DeduplicationWindow )
            /\ (config.DeduplicationEnabled /\ config.DeduplicationWindow = 5 /\ r.had) =>
                  /\ elapsed = 1 => ~r.ret
                  /\ elapsed = 5 => ~r.ret
                  /\ elapsed = 6 => r.ret

\* window 5: one entry consulted at T+1 and refused, at T+6 and accepted
C5_Witness ==
    /\ config.DeduplicationEnabled
    /\ config.DeduplicationWindow = 5
    /\ \E i, j \in DOMAIN rets :
          /\ rets[i].had /\ rets[j].had
          /\ rets[i].key = rets[j].key
          /\ rets[i].lastSent = rets[j].lastSent
          /\ rets[i].at = rets[i].lastSent + 1 /\ ~rets[i].ret
          /\ rets[j].at = rets[j].lastSent + 6 /\ rets[j].ret

\* ------------------------------------------------------------------ C10
\* C10: a write by a reader to the value GetAgent or GetAllAgents returned,
\* to a field or through any slice, map or pointer in it, leaves what a read
\* of every agent in the store shows as it was.
C10_ReadsUnaffected ==
    [][ (root' = root /\ held' = held /\ Len(heap') = Len(heap)) =>
            \A a \in DOMAIN root : Deep(heap', root[a]) = Deep(heap, root[a]) ]_vars

\* ------------------------------------------------------------------ C11
\* C11: a write by a reader to an Alert that GetAlert, GetActiveAlerts or
\* GetAlertsByAgent returned, to a field or through its details map or a
\* timestamp pointer, leaves what a read of every alert in the index shows
\* as it was.
C11_AlertReadsUnaffected ==
    [][ (index' = index /\ got' = got /\ Len(heap') = Len(heap)) =>
            \A i \in DOMAIN index :
                DeepAlert(heap', index[i]) = DeepAlert(heap, index[i]) ]_vars

\* ------------------------------------------------------------------ C12
\* C12: a CheckOfflineAgents call returns exactly the agents that were online
\* with now - last_seen > timeout and sets exactly those to offline; it never
\* returns an agent that was already offline, so an agent the previous call
\* returned and that has not pushed or sent a heartbeat since is not returned.
C12_ReturnsNewlyOfflineOnly ==
    [][ (pc = "idle" /\ pc' = "offline") =>
            LET due == {a \in DOMAIN agents :
                            /\ agents[a].Status = "online"
                            /\ now' - agents[a].LastSeen > config.HeartbeatTimeout}
            IN  /\ offline' = due
                /\ {todo'[i].AgentName : i \in DOMAIN todo'} = due
                /\ Len(todo') = Cardinality(due)
                /\ \A a \in DOMAIN agents :
                      agents'[a].Status = IF a \in due THEN "offline"
                                          ELSE agents[a].Status
                /\ \A a \in offline' : agents[a].Status # "offline"
                /\ \A a \in offline : agents[a].Status = "offline" => a \notin offline' ]_vars

\* a later call has just returned one agent and not the one flipped earlier
C12_Witness ==
    /\ pc = "offline"
    /\ cycle >= 2
    /\ \E a \in offline, b \in DOMAIN agents :
          /\ b \notin offline
          /\ agents[a].Status = "offline"
          /\ agents[b].Status = "offline"

\* ------------------------------------------------------------------ C13
\* C13: right after a CheckOfflineAgents call every agent is online exactly
\* when now - last_seen <= timeout; an run's status or last_seen changes
\* only in that call, which sets an online agent to offline, or in a push or
\* heartbeat, which sets online and last_seen to now.
C13_StatusFollowsLastSeen ==
    [][ /\ (pc = "idle" /\ pc' = "offline") =>
              \A a \in DOMAIN agents' :
                  (agents'[a].Status = "online")
                      <=> (now' - agents'[a].LastSeen <= config.HeartbeatTimeout)
        /\ \A a \in DOMAIN agents' :
              ( \/ a \notin DOMAIN agents
                \/ agents'[a].Status # agents[a].Status
                \/ agents'[a].LastSeen # agents[a].LastSeen )
              => IF pc = "idle" /\ pc' = "offline"
                 THEN /\ a \in DOMAIN agents
                      /\ agents[a].Status = "online"
                      /\ agents'[a].Status = "offline"
                      /\ agents'[a].LastSeen = agents[a].LastSeen
                 ELSE /\ agents'[a].Status = "online"
                      /\ agents'[a].LastSeen = now' ]_vars

\* right after a call: a fresh agent is online and a stale one is offline
C13_Witness ==
    /\ pc = "offline"
    /\ todo = <<>>
    /\ \E a, b \in DOMAIN agents :
          /\ agents[a].Status = "online"
          /\ agents[b].Status = "offline"
          /\ now - agents[a].LastSeen <= config.HeartbeatTimeout
          /\ now - agents[b].LastSeen > config.HeartbeatTimeout

\* ------------------------------------------------------------------ C14
\* C14: UpdateHeartbeat on a known agent changes its last_seen to now and its
\* status to online and nothing else in the store; on an unknown name it adds
\* a record with that name, online, without metrics, containers or alerts.
C14_HeartbeatFrame ==
    [][ (last'.op = "UpdateHeartbeat" /\ agents' # agents) =>
            LET a == last'.agent
            IN  /\ alerts' = alerts
                /\ DOMAIN agents' = DOMAIN agents \cup {a}
                /\ \A x \in DOMAIN agents : x # a => agents'[x] = agents[x]
                /\ agents'[a].AgentName = a
                /\ agents'[a].LastSeen = now'
                /\ agents'[a].Status = "online"
                /\ IF a \in DOMAIN agents
                   THEN /\ agents'[a].CPU = agents[a].CPU
                        /\ agents'[a].Containers = agents[a].Containers
                        /\ agents'[a].ActiveAlerts = agents[a].ActiveAlerts
                   ELSE /\ agents'[a].CPU = 0
                        /\ agents'[a].Containers = <<>>
                        /\ agents'[a].ActiveAlerts = <<>> ]_vars

\* the last call was a heartbeat of an agent that has metrics and an alert
C14_Witness ==
    /\ last.op = "UpdateHeartbeat"
    /\ agents[last.agent].LastSeen = now
    /\ agents[last.agent].CPU > 0
    /\ agents[last.agent].ActiveAlerts # <<>>

\* ------------------------------------------------------------------ C15
\* C15: ResolveAlert of a known id sets that alert's status to resolved and
\* its resolved-at to now, takes it out of its run's active list and out of
\* the active alerts, keeps it in the id index and changes nothing else;
\* ResolveAlert of an unknown id changes neither agents nor alerts.
C15_ResolveEffect ==
    [][ (last'.op = "ResolveAlert" /\ (last.op # "ResolveAlert" \/ alerts' # alerts)) =>
            LET ch == {i \in DOMAIN alerts' :
                          i \notin DOMAIN alerts \/ alerts'[i] # alerts[i]}
            IN  IF ch = {}
                THEN agents' = agents /\ alerts' = alerts /\ now' = now
                ELSE /\ Cardinality(ch) = 1
                     /\ DOMAIN alerts' = DOMAIN alerts
                     /\ \A id \in ch :
                          /\ alerts'[id].Status = "resolved"
                          /\ alerts'[id].ResolvedAt = now'
                          /\ alerts'[id].ID = id
                          /\ alerts'[id].AgentName = alerts[id].AgentName
                          /\ alerts'[id].AlertType = alerts[id].AlertType
                          /\ DOMAIN agents' = DOMAIN agents
                          /\ \A a \in DOMAIN agents :
                               LET old == agents[a].ActiveAlerts
                                   pos == {n \in DOMAIN old : old[n].ID # id}
                               IN  /\ [agents'[a] EXCEPT !.ActiveAlerts = old] = agents[a]
                                   /\ \A n \in DOMAIN agents'[a].ActiveAlerts :
                                         agents'[a].ActiveAlerts[n].ID # id
                                   /\ Len(agents'[a].ActiveAlerts) = Cardinality(pos)
                                   /\ \A n \in pos :
                                         \E m \in DOMAIN agents'[a].ActiveAlerts :
                                             agents'[a].ActiveAlerts[m] = old[n] ]_vars

\* an alert was just resolved and left the list, another one is still listed
C15_Witness ==
    /\ last.op = "ResolveAlert"
    /\ \E i, j \in DOMAIN alerts :
          /\ alerts[i].Status = "resolved"
          /\ alerts[i].ResolvedAt = now
          /\ added[i].listed
          /\ alerts[j].Status = "active"
          /\ alerts[j].AgentName = alerts[i].AgentName
          /\ \E n \in DOMAIN agents[alerts[j].AgentName].ActiveAlerts :
                agents[alerts[j].AgentName].ActiveAlerts[n].ID = j

\* ------------------------------------------------------------------ C16
\* C16: no step removes an agent name from the store or an alert id from the
\* index, and an indexed alert keeps its id and agent.
C16_NeverRemoved ==
    [][ /\ DOMAIN agents \subseteq DOMAIN agents'
        /\ DOMAIN alerts \subseteq DOMAIN alerts'
        /\ \A a \in DOMAIN agents : agents'[a].AgentName = a
        /\ \A i \in DOMAIN alerts :
              alerts'[i].ID = i /\ alerts'[i].AgentName = alerts[i].AgentName ]_vars

\* a stale agent kept as offline and a resolved alert kept in the index
C16_Witness ==
    /\ \E a \in DOMAIN agents : agents[a].Status = "offline"
    /\ \E i \in DOMAIN alerts : alerts[i].Status = "resolved"

\* ------------------------------------------------------------------ C17
\* C17 as stated: attempts are numbered in order, every attempt but the last
\* failed retryably, there are at most 1 + max_retries of them (exactly that
\* many against a server always answering 500, exactly one against 400), the
\* call returns nil exactly when its last attempt succeeded and otherwise
\* always an error wrapping the failure of the last attempt.
C17_AsStated ==
    LET isSend(e) == e.kind = "send"
        sends == SelectSeq(wire, isSend)
        n == Len(sends)
        ok(r) == r >= 200 /\ r < 300
    IN  /\ n <= 1 + sender.maxRetries
        /\ \A i \in 1..n : sends[i].attempt = i - 1
        /\ \A i \in 1..(n - 1) :
              ~ok(sends[i].n) /\ (sends[i].n = 0 \/ sends[i].n >= 500 \/ sends[i].n = 429)
        /\ call.pc = "done" =>
              /\ n >= 1
              /\ (call.ret = NoErr) <=> ok(sends[n].n)
              /\ call.ret # NoErr => Unwrap(call.ret) = send(sends[n].n)
              /\ ((\A i \in 1..n : sends[i].n = 500) /\ call.ctx = "live")
                    => n = 1 + sender.maxRetries
              /\ (\A i \in 1..n : sends[i].n = 400) => n = 1

\* C17, amended: the same, except that a call whose context ended during a
\* backoff returns the context's error, which does not wrap the last failure;
\* every other error returned wraps the failure of the last attempt.
C17_AttemptsAndResult ==
    LET isSend(e) == e.kind = "send"
        sends == SelectSeq(wire, isSend)
        n == Len(sends)
        ok(r) == r >= 200 /\ r < 300
    IN  /\ n <= 1 + sender.maxRetries
        /\ \A i \in 1..n : sends[i].attempt = i - 1
        /\ \A i \in 1..(n - 1) :
              ~ok(sends[i].n) /\ (sends[i].n = 0 \/ sends[i].n >= 500 \/ sends[i].n = 429)
        /\ call.pc = "done" =>
              /\ n >= 1
              /\ (call.ret = NoErr) <=> ok(sends[n].n)
              /\ call.ret # NoErr =>
                    IF call.ret.kind \in {"canceled", "deadline"}
                    THEN /\ call.ret = CtxErr(call.ctx)
                         /\ n <= sender.maxRetries
                         /\ wire[Len(wire)].kind = "send"
                    ELSE /\ Unwrap(call.ret) = send(sends[n].n)
                         /\ call.ret.wrapped => n = 1 + sender.maxRetries
              /\ ((\A i \in 1..n : sends[i].n = 500) /\ call.ctx = "live")
                    => n = 1 + sender.maxRetries
              /\ (\A i \in 1..n : sends[i].n = 400) => n = 1

\* three retries used up against a server answering 500 every time
C17_Witness ==
    /\ call.pc = "done"
    /\ sender.maxRetries = 3
    /\ Len(wire) = 7
    /\ \A i \in DOMAIN wire : wire[i].kind = "send" => wire[i].n = 500
    /\ call.ret = Wrap(HTTPError(500))

\* ------------------------------------------------------------------ C18
\* C18: an attempt is followed by a retry only if it got no response or a
\* status >= 500 or 429; after any other error status the call has returned
\* that HTTP error and makes no further attempt.
C18_RetryOnlyRetryable ==
    [][ (call.pc = "send" /\ call'.pc # "send") =>
            LET r == wire'[Len(wire')].n
            IN  /\ wire' = Append(wire, SendEvent(call.attempt, r))
                /\ call'.pc = "wait" => (r = 0 \/ r >= 500 \/ r = 429)
                /\ (r >= 300 /\ r < 500 /\ r # 429) =>
                      /\ call'.pc = "done"
                      /\ call'.ret = HTTPError(r) ]_vars

\* a 429 was retried, the 404 that followed ended the call
C18_Witness ==
    /\ call.pc = "done"
    /\ Len(wire) = 3
    /\ wire[1] = SendEvent(0, 429)
    /\ wire[3] = SendEvent(1, 404)
    /\ call.ret = HTTPError(404)

\* ------------------------------------------------------------------ C19
\* C19: from a backoff wait whose context is cancelled or past its deadline
\* the only step is the return of the context's error, with no further send.
C19_CtxEndsBackoff ==
    [][ (call.pc = "wait" /\ call.ctx # "live") =>
            /\ call'.pc = "done"
            /\ call'.ret = CtxErr(call.ctx)
            /\ wire' = wire ]_vars

\* the deadline passed in the second backoff and the call returned its error
C19_Witness ==
    /\ call.pc = "done"
    /\ call.ret = CtxErr("deadline")
    /\ Len(wire) = 3
    /\ wire[3].kind = "send"
    /\ wire[3].n = 503

\* ------------------------------------------------------------------ C20
\* C20: the first event of a call is a send; exactly one wait lies between
\* two consecutive sends; the wait before retry 1 is retryBackoff and the
\* wait before each later retry is twice the wait before it (2, 4, 8 with
\* the defaults).
C20_BackoffDoubles ==
    /\ \A i \in DOMAIN wire :
          wire[i].kind = (IF i % 2 = 1 THEN "send" ELSE "wait")
    /\ \A i \in DOMAIN wire :
          wire[i].kind = "wait" =>
              /\ wire[i].attempt = i \div 2
              /\ wire[i].n = IF i = 2 THEN sender.retryBackoff ELSE 2 * wire[i - 2].n
    /\ (sender = NewSender /\ Len(wire) >= 6) =>
          <<wire[2].n, wire[4].n, wire[6].n>> = <<2, 4, 8>>

\* the default sender has waited 2, 4 and 8 and made its last attempt
C20_Witness ==
    /\ sender = NewSender
    /\ Len(wire) = 7
    /\ wire[6] = WaitEvent(3, 8)

\* ------------------------------------------------------------------ C21
\* C21: a collection tick is served when it falls due, whatever the loop is
\* doing: no tick is still waiting on the ticker channel at a later time.
C21_CollectServedWhenDue ==
    run.collectC = 1 => run.due = now

C23_SystemAlerts ==
    [][/\ (pc = "offline" /\ pc' = "scan") =>
            \A a \in DOMAIN agents :
                LET cs == IF a \in DOMAIN snapshot' THEN snapshot'[a] ELSE <<>>
                    of(t) == {i \in DOMAIN cs : cs[i].AlertType = t}
                    st == agents[a]
                    high == {j \in DOMAIN st.Disk :
                                /\ config.SystemDiskThreshold > 0
                                /\ st.Disk[j].UsedPercent > config.SystemDiskThreshold}
                IN  IF st.Status # "online" THEN cs = <<>>
                    ELSE /\ Cardinality(of("system_cpu_high")) =
                               IF config.SystemCPUThreshold > 0
                                  /\ st.CPU > config.SystemCPUThreshold
                               THEN 1 ELSE 0
                         /\ \A i \in of("system_cpu_high") :
                               /\ cs[i].Severity = "warning"
                               /\ cs[i].key = Key("system_cpu", a, "")
                         /\ Cardinality(of("system_memory_high")) =
                               IF config.SystemMemoryThreshold > 0
                                  /\ st.Memory > config.SystemMemoryThreshold
                               THEN 1 ELSE 0
                         /\ \A i \in of("system_memory_high") :
                               /\ cs[i].Severity = "warning"
                               /\ cs[i].key = Key("system_memory", a, "")
                         /\ Cardinality(of("system_disk_high")) = Cardinality(high)
                         /\ \A j \in high : \E i \in of("system_disk_high") :
                               cs[i].key = Key("system_disk", a, st.Disk[j].MountPoint)
                         /\ \A i \in of("system_disk_high") :
                               /\ cs[i].Severity = "critical"
                               /\ \E j \in high :
                                     cs[i].key = Key("system_disk", a, st.Disk[j].MountPoint)
       /\ (pc = "scan" /\ todo # <<>> /\ todo' # todo
                /\ Head(todo).AlertType \in
                       {"system_cpu_high", "system_memory_high", "system_disk_high"}) =>
              LET c == Head(todo)
              IN  IF /\ config.DeduplicationEnabled
                     /\ c.key \in DOMAIN recentAlerts
                     /\ now - recentAlerts[c.key] <= config.DeduplicationWindow
                  THEN nextId' = nextId /\ alerts' = alerts
                  ELSE /\ nextId' = nextId + 1
                       /\ DOMAIN alerts' = DOMAIN alerts \cup {nextId'}
                       /\ alerts'[nextId'].AlertType = c.AlertType
                       /\ alerts'[nextId'].Severity = c.Severity
                       /\ alerts'[nextId'].AgentName = c.AgentName
                       /\ alerts'[nextId'].Status = "active"
      ]_vars

\* two disks of one agent above the threshold, deduplication on: both are
\* recorded in the same cycle, each under the key of its mount point, while
\* the CPU threshold is 0 and the CPU at 85 raised nothing
C23_Witness ==
    /\ pc = "idle"
    /\ cycle = 1
    /\ config.DeduplicationEnabled
    /\ config.SystemCPUThreshold = 0
    /\ "a1" \in DOMAIN agents
    /\ agents["a1"].CPU = 85
    /\ DOMAIN alerts = {1, 2}
    /\ \A i \in {1, 2} : alerts[i].AlertType = "system_disk_high"
                          /\ alerts[i].Severity = "critical"
    /\ Len(calls) = 2
    /\ {calls[1].key, calls[2].key} =
          {Key("system_disk", "a1", "/"), Key("system_disk", "a1", "/data")}

\* C24: the snapshot of an evaluation cycle holds, for every container of an
\* online agent, a container_unhealthy condition (warning) exactly when its
\* health is unhealthy, a container_cpu_high condition (warning) exactly when
\* its CPU is above 90 and a container_memory_high condition (critical)
\* exactly when its memory is above 95, each under the key of its own kind,
\* agent and container; and a container condition is recorded as an alert
\* unless its own key is inside its deduplication window, whatever the other
\* keys are.
C24_ContainerAlerts ==
    [][/\ (pc = "offline" /\ pc' = "scan") =>
            \A a \in DOMAIN agents :
                LET cs == IF a \in DOMAIN snapshot' THEN snapshot'[a] ELSE <<>>
                    st == agents[a]
                    of(t, id) == {i \in DOMAIN cs :
                                     cs[i].AlertType = t /\ cs[i].key.sub = id}
                    one(t, id, kind, sev, holds) ==
                        /\ Cardinality(of(t, id)) = IF holds THEN 1 ELSE 0
                        /\ \A i \in of(t, id) : /\ cs[i].Severity = sev
                                                /\ cs[i].key = Key(kind, a, id)
                                                /\ cs[i].AgentName = a
                IN  st.Status = "online" =>
                      \A k \in DOMAIN st.Containers :
                          LET c == st.Containers[k]
                          IN  /\ one("container_unhealthy", c.ID, "container_unhealthy",
                                     "warning", c.Health = "unhealthy")
                              /\ one("container_cpu_high", c.ID, "container_cpu",
                                     "warning", c.CPUPercent > 90)
                              /\ one("container_memory_high", c.ID, "container_memory",
                                     "critical", c.MemoryPercent > 95)
       /\ (pc = "scan" /\ todo # <<>> /\ todo' # todo
                /\ Head(todo).AlertType \in
                       {"container_unhealthy", "container_cpu_high",
                        "container_memory_high"}) =>
              LET c == Head(todo)
              IN  IF /\ config.DeduplicationEnabled
                     /\ c.key \in DOMAIN recentAlerts
                     /\ now - recentAlerts[c.key] <= config.DeduplicationWindow
                  THEN nextId' = nextId /\ alerts' = alerts
                  ELSE /\ nextId' = nextId + 1
                       /\ DOMAIN alerts' = DOMAIN alerts \cup {nextId'}
                       /\ alerts'[nextId'].AlertType = c.AlertType
                       /\ alerts'[nextId'].Severity = c.Severity
                       /\ alerts'[nextId'].AgentName = c.AgentName
                       /\ alerts'[nextId'].Status = "active"
      ]_vars

\* deduplication on: the first cycle recorded container_unhealthy for c1; in
\* the second cycle c1 is still unhealthy and its CPU is now at 95: the
\* unhealthy key is suppressed and container_cpu_high is recorded all the same
C24_Witness ==
    /\ pc = "idle"
    /\ cycle = 2
    /\ config.DeduplicationEnabled
    /\ "a1" \in DOMAIN agents
    /\ agents["a1"].Containers[1].Health = "unhealthy"
    /\ agents["a1"].Containers[1].CPUPercent = 95
    /\ DOMAIN alerts = {1, 2}
    /\ alerts[1].AlertType = "container_unhealthy"
    /\ alerts[2].AlertType = "container_cpu_high"
    /\ Len(calls) = 2
    /\ calls[1].cycle = 1 /\ calls[1].ok
    /\ calls[2].cycle = 2
    /\ calls[2].key = Key("container_cpu", "a1", "c1")
    /\ Key("container_unhealthy", "a1", "c1") \in DOMAIN recentAlerts
    /\ now - recentAlerts[Key("container_unhealthy", "a1", "c1")] <= config.DeduplicationWindow

\* C25: whenever the metrics or the heartbeat route serves a request, a
\* request without a well-formed "Bearer <key>" header or with a key that is
\* not configured is answered 401, one whose key lacks the route's scope
\* (metrics:write, heartbeat:write) is answered 403, and in both cases neither
\* the store nor the handler's goroutine changes; the handler answers, or
\* starts an UpdateAgent, only for a configured key holding the scope.
C25_AuthGate ==
    [][(http' # http) =>
          LET r == http'.request
              required == IF r.path = "/api/v1/metrics/push" THEN {"metrics:write"}
                          ELSE {"heartbeat:write"}
              known == /\ Len(r.auth) = 2
                       /\ r.auth[1] = "Bearer"
                       /\ r.auth[2] \in DOMAIN APIKeys
              scoped == known /\ required \subseteq APIKeys[r.auth[2]]
              untouched == /\ agents' = agents
                           /\ alerts' = alerts
                           /\ req' = req
                           /\ last' = last
          IN  /\ ~known => (http'.status = 401 /\ untouched)
              /\ (known /\ ~scoped) => (http'.status = 403 /\ untouched)
              /\ http'.status \notin {401, 403} => scoped
              /\ ~untouched => scoped
      ]_vars

\* a heartbeat for a1, well formed, sent with the key that holds metrics:write
\* only: answered 403, and the store is still empty
C25_Witness ==
    /\ http.request.path = "/api/v1/heartbeat"
    /\ http.request.method = "POST"
    /\ http.request.auth = <<"Bearer", "k-metrics">>
    /\ http.request.valid
    /\ http.request.agent_name = "a1"
    /\ http.status = 403
    /\ agents = <<>>
    /\ last.op = "none"

\* C26: an authorized metrics push or heartbeat sent with a method other
\* than POST is answered 405; sent with POST, within the size limit, and
\* with a body that does not decode or whose agent_name is empty, it is
\* answered 400; in each case agents, alerts and the handler's goroutine are
\* exactly as before the request.
C26_BadRequests ==
    [][(http' # http /\ http'.status \notin {401, 403}) =>
          LET r == http'.request
              untouched == /\ agents' = agents
                           /\ alerts' = alerts
                           /\ req' = req
                           /\ last' = last
          IN  /\ r.method # "POST" => (http'.status = 405 /\ untouched)
              /\ (r.method = "POST" /\ r.length <= MaxRequestSize
                    /\ (~r.valid \/ r.agent_name = "")) =>
                        (http'.status = 400 /\ untouched)
              /\ http'.status \in {400, 405} => untouched
      ]_vars

\* a1 is stored; an authorized heartbeat whose document has an empty
\* agent_name was answered 400 and no agent "" was created
C26_Witness ==
    /\ http.request.path = "/api/v1/heartbeat"
    /\ http.request.method = "POST"
    /\ http.request.auth = <<"Bearer", "k-heartbeat">>
    /\ http.request.valid
    /\ http.request.agent_name = ""
    /\ http.status = 400
    /\ DOMAIN agents = {"a1"}

\* C27: an authorized POST on the metrics route whose body, once
\* decompressed, exceeds MaxRequestSize is answered 413 and changes neither
\* the store nor the handler's goroutine.
C27_LimitOnDecompressed ==
    [][(http' # http /\ http'.request.path = "/api/v1/metrics/push"
            /\ http'.status \notin {401, 403}
            /\ http'.request.method = "POST"
            /\ http'.request.size > MaxRequestSize) =>
          /\ http'.status = 413
          /\ agents' = agents
          /\ alerts' = alerts
          /\ req' = req
      ]_vars

\* C28: when HandleHealth reads the agents, every stored agent is online or
\* offline, agents_online and agents_offline are the numbers of stored agents
\* with these statuses and their sum is the number of stored agents; when it
\* then reads the alerts, active_alerts is the number of alerts of the id
\* index whose status is active, and the agent counts are reported as read.
C28_HealthCounts ==
    [][/\ (http' # http /\ http'.request.path = "/api/v1/health"
              /\ http'.request.method = "GET" /\ http'.status = 0) =>
            LET with(s) == Cardinality({a \in DOMAIN agents : agents[a].Status = s})
            IN  /\ \A a \in DOMAIN agents : agents[a].Status \in {"online", "offline"}
                /\ http'.report.agents_online = with("online")
                /\ http'.report.agents_offline = with("offline")
                /\ http'.report.agents_online + http'.report.agents_offline =
                      Cardinality(DOMAIN agents)
       /\ (http.request.path = "/api/v1/health" /\ http.status = 0
              /\ http'.status = 200) =>
            /\ http'.report.active_alerts =
                  Cardinality({i \in DOMAIN alerts : alerts[i].Status = "active"})
            /\ http'.report.agents_online = http.report.agents_online
            /\ http'.report.agents_offline = http.report.agents_offline
      ]_vars

\* two agents stored, one of them gone offline, one active alert: the health
\* route answered 200 with 1 online, 1 offline, 1 active alert
C28_Witness ==
    /\ http.request.path = "/api/v1/health"
    /\ http.status = 200
    /\ http.report = [agents_online |-> 1, agents_offline |-> 1, active_alerts |-> 1]
    /\ DOMAIN agents = {"a1", "a2"}
    /\ \E a \in DOMAIN agents : agents[a].Status = "offline"
    /\ DOMAIN alerts = {1}
    /\ alerts[1].Status = "active"

\* C29: alerts resolve when their condition clears: when an evaluation cycle
\* that found the CPU of an online agent at or below the threshold ends, no
\* system_cpu_high alert of that agent is still active.
C29_ResolvedWhenCleared ==
    [][(pc = "scan" /\ pc' = "idle") =>
          \A i \in DOMAIN alerts' :
              LET a == alerts'[i].AgentName
              IN  (/\ alerts'[i].AlertType = "system_cpu_high"
                   /\ a \in DOMAIN agents
                   /\ agents[a].Status = "online"
                   /\ agents[a].CPU <= config.SystemCPUThreshold) =>
                      alerts'[i].Status # "active"
      ]_vars

\* C30: when the config file sets system_cpu_threshold to 0, the server
\* never records a system_cpu_high alert.
C30_ZeroDisablesCPU ==
    (file.given /\ file.system_cpu_threshold = 0) =>
        \A i \in DOMAIN alerts : alerts[i].AlertType # "system_cpu_high"

\* C31: when the engine handles a system or container condition found true
\* by the cycle's snapshot and no notification for its key has succeeded so
\* far, it attempts the notification in this cycle, deduplication enabled or
\* not; and a notification for system_cpu is attempted only in a cycle whose
\* snapshot found the CPU of the online agent above the threshold.
C31_RetryUntilDelivered ==
    [][/\ (pc = "scan" /\ todo # <<>> /\ todo' # todo
              /\ Head(todo).AlertType # "agent_offline"
              /\ \A n \in DOMAIN calls : calls[n].key = Head(todo).key => ~calls[n].ok) =>
            /\ Len(calls') = Len(calls) + 1
            /\ calls'[Len(calls')].key = Head(todo).key
            /\ calls'[Len(calls')].cycle = cycle
       /\ (pc = "scan" /\ Len(calls') = Len(calls) + 1
              /\ calls'[Len(calls')].key.kind = "system_cpu") =>
            LET a == calls'[Len(calls')].key.agent
            IN  /\ a \in DOMAIN agents
                /\ agents[a].Status = "online"
                /\ agents[a].CPU > config.SystemCPUThreshold
      ]_vars

\* deduplication on: the CPU of a1 stays at 85, the notification failed in
\* the first cycle and was attempted again, and failed again, in the second
C31_Witness ==
    /\ config.DeduplicationEnabled
    /\ cycle = 2
    /\ pc = "idle"
    /\ Len(calls) = 2
    /\ calls[1].key = Key("system_cpu", "a1", "") /\ ~calls[1].ok /\ calls[1].cycle = 1
    /\ calls[2].key = Key("system_cpu", "a1", "") /\ ~calls[2].ok /\ calls[2].cycle = 2
    /\ recentAlerts = <<>>

\* C32: for every notification attempt, the alert recorded in the store
\* under the attempt's id has its notified-at set if the delivery succeeded
\* and unset if it failed.
C32_NotifiedAtRecorded ==
    \A n \in DOMAIN calls :
        /\ calls[n].id \in DOMAIN alerts
        /\ calls[n].ok <=> alerts[calls[n].id].NotifiedAt # 0

\* C33: offline detection is the first step of a cycle and the snapshot is
\* taken after it; the snapshot keeps for evaluation only agents whose status
\* is online, so an agent this cycle's detection flipped offline and that is
\* still offline at the snapshot is not evaluated; and every notification
\* for a system or container condition made in the cycle is for an agent
\* the snapshot found online.
C33_OnlyOnlineEvaluated ==
    [][/\ (offline' # offline \/ cycle' # cycle) => (pc = "idle" /\ pc' = "offline")
       /\ (snapshot' # snapshot /\ pc = "offline") =>
            /\ pc' = "scan"
            /\ \A a \in DOMAIN snapshot' : agents[a].Status = "online"
            /\ \A a \in offline :
                  agents[a].Status = "offline" => a \notin DOMAIN snapshot'
       /\ (Len(calls') = Len(calls) + 1
              /\ calls'[Len(calls')].key.kind # "agent_offline") =>
            /\ pc = "scan"
            /\ Head(todo).AgentName = calls'[Len(calls')].key.agent
      ]_vars

\* a1 last pushed a CPU of 85 and was flipped offline by this cycle's
\* detection: the cycle is in its scan with nothing to evaluate, and its only
\* notifications are agent_offline ones
C33_Witness ==
    /\ pc = "scan"
    /\ "a1" \in offline
    /\ agents["a1"].Status = "offline"
    /\ agents["a1"].CPU = 85
    /\ DOMAIN snapshot = {}
    /\ todo = <<>>
    /\ \E n \in DOMAIN calls : calls[n].cycle = cycle
    /\ \A n \in DOMAIN calls :
          calls[n].cycle = cycle => calls[n].key.kind = "agent_offline"

\* C34: when a cycle ends, every online agent whose CPU is above the
\* threshold had its system_cpu_high alert recorded and its notification
\* attempted in this cycle, unless its key was inside the deduplication
\* window, whatever the Notifier answered for the other agents.
C34_FailureDoesNotAbort ==
    [][(pc = "scan" /\ pc' = "idle") =>
          \A a \in DOMAIN agents :
              (agents[a].Status = "online" /\ agents[a].CPU > config.SystemCPUThreshold) =>
                  \/ \E n \in DOMAIN calls :
                        /\ calls[n].cycle = cycle
                        /\ calls[n].key = Key("system_cpu", a, "")
                        /\ calls[n].id \in DOMAIN alerts
                        /\ alerts[calls[n].id].AgentName = a
                        /\ alerts[calls[n].id].AlertType = "system_cpu_high"
                  \/ /\ config.DeduplicationEnabled
                     /\ Key("system_cpu", a, "") \in DOMAIN recentAlerts
                     /\ now - recentAlerts[Key("system_cpu", a, "")] <= config.DeduplicationWindow
      ]_vars

\* the first notification of the cycle failed; the other agent was evaluated
\* all the same, its alert recorded and delivered
C34_Witness ==
    /\ pc = "idle"
    /\ cycle = 1
    /\ Len(calls) = 2
    /\ ~calls[1].ok /\ calls[1].cycle = 1
    /\ calls[2].ok /\ calls[2].cycle = 1
    /\ calls[1].key.agent # calls[2].key.agent
    /\ DOMAIN alerts = {1, 2}
    /\ alerts[2].AgentName = calls[2].key.agent

\* C35: a cycle starts only when the previous call of checkAlerts has
\* returned: the cycle counter moves by one, from the engine at rest with
\* nothing left of the previous scan, and the engine is inside checkAlerts
\* only after a cycle has started.
C35_CyclesDoNotOverlap ==
    /\ (pc # "idle" => cycle >= 1)
    /\ (pc = "idle" => (todo = <<>> /\ DOMAIN snapshot = {}))
    /\ [][cycle' # cycle =>
            /\ pc = "idle"
            /\ pc' = "offline"
            /\ cycle' = cycle + 1]_vars

\* a metrics push holds the store lock in the middle of UpdateAgent while
\* the second cycle is scanning
C35_Witness ==
    /\ cycle = 2
    /\ pc = "scan"
    /\ req["h1"].pc = "merged"
    /\ mu = "h1"

\* C36: the sweep keeps exactly the entries whose last send is at most two
\* DeduplicationWindows back, each with its time, and a step that removes an
\* entry is such a sweep and leaves the answer of shouldSendAlert for every
\* key as it was.
C36_SweepKeepsAnswers ==
    /\ DOMAIN cleanupDeduplication =
           {k \in DOMAIN recentAlerts :
                now - recentAlerts[k] <= 2 * config.DeduplicationWindow}
    /\ \A k \in DOMAIN cleanupDeduplication : cleanupDeduplication[k] = recentAlerts[k]
    /\ [][(\E k \in DOMAIN recentAlerts : k \notin DOMAIN recentAlerts') =>
             /\ recentAlerts' = cleanupDeduplication
             /\ \A k \in SweepKeys : shouldSendAlert(k)' = shouldSendAlert(k)
         ]_vars

\* an entry consulted past its window was swept and its key consulted again,
\* while the sweep kept an entry past one window but not past two
C36_Witness ==
    /\ config.DeduplicationEnabled
    /\ Len(rets) = 2
    /\ rets[1].key = rets[2].key
    /\ rets[1].had /\ rets[1].ret
    /\ ~rets[2].had /\ rets[2].ret
    /\ rets[1].key \notin DOMAIN recentAlerts
    /\ \E k \in DOMAIN recentAlerts :
          /\ recentAlerts[k] < rets[1].lastSent + 2
          /\ now - recentAlerts[k] > config.DeduplicationWindow

\* C37: when a cycle's offline detection runs, every agent already offline
\* with no agent_offline alert recorded since it was last seen, and whose
\* key is outside the deduplication window at that time, is taken up by
\* this cycle's offline phase.
C37_SuppressedFlipAlertedLater ==
    [][(pc = "idle" /\ pc' = "offline") =>
          \A a \in DOMAIN agents :
              ( /\ agents[a].Status = "offline"
                /\ ~\E n \in DOMAIN calls :
                      /\ calls[n].key = Key("agent_offline", a, "")
                      /\ calls[n].at > agents[a].LastSeen
                      /\ calls[n].id \in DOMAIN alerts
                /\ shouldSendAlert(Key("agent_offline", a, ""))' )
              => \E i \in DOMAIN todo' : todo'[i].AgentName = a
      ]_vars

\* C38: the alerts of the store and the notification attempts correspond
\* one to one: every attempt has its own id, recorded as an active alert of
\* the attempt's agent, and no alert exists without its attempt; a step
\* that makes an attempt adds exactly the alert of a fresh id, and a
\* condition refused by deduplication adds neither an alert nor an attempt.
C38_OneAlertPerAttempt ==
    /\ DOMAIN alerts = {calls[n].id : n \in DOMAIN calls}
    /\ \A i, j \in DOMAIN calls : i # j => calls[i].id # calls[j].id
    /\ \A n \in DOMAIN calls :
          /\ alerts[calls[n].id].AgentName = calls[n].key.agent
          /\ alerts[calls[n].id].Status = "active"
    /\ [][/\ Len(calls') = Len(calls) + 1 =>
                /\ calls'[Len(calls')].id \notin DOMAIN alerts
                /\ DOMAIN alerts' = DOMAIN alerts \cup {calls'[Len(calls')].id}
          /\ alerts' # alerts => Len(calls') = Len(calls) + 1
          /\ ( /\ pc \in {"offline", "scan"}
               /\ todo # <<>>
               /\ todo' = Tail(todo)
               /\ ~shouldSendAlert(Head(todo).key) ) =>
                   (alerts' = alerts /\ calls' = calls)
         ]_vars

\* the CPU condition of a1 failed to deliver in two cycles: two active
\* alerts of the same type are stored for it
C38_Witness ==
    /\ Len(calls) = 2
    /\ ~calls[1].ok /\ ~calls[2].ok
    /\ calls[1].key = calls[2].key
    /\ calls[1].cycle < calls[2].cycle
    /\ DOMAIN alerts = {1, 2}
    /\ alerts[1].AlertType = "system_cpu_high" /\ alerts[2].AlertType = "system_cpu_high"
    /\ alerts[1].Status = "active" /\ alerts[2].Status = "active"
    /\ Len(agents["a1"].ActiveAlerts) = 2

\* C39: when a cycle ends, a container of an online agent that was recorded
\* going from running to exited (first reported running, its stored
\* previous_state now exited) has a container_stopped alert recorded.
C39_TransitionAlertedAfterPushes ==
    [][(pc = "scan" /\ pc' = "idle") =>
          \A a \in DOMAIN agents :
              \A i \in DOMAIN agents[a].Containers :
                  ( /\ agents[a].Status = "online"
                    /\ agents[a].Containers[i].PreviousState = "exited" )
                  => \E n \in DOMAIN calls :
                        /\ calls[n].key =
                               Key("container_stopped", a, agents[a].Containers[i].ID)
                        /\ calls[n].id \in DOMAIN alerts
      ]_vars

\* C40: the merge of UpdateAgent yields one entry per container of the
\* push, in the push's order and with the push's id and state, an id the
\* store does not hold getting the push's own previous_state and a new
\* last_state_change; and the list UpdateAgent stores is that merged list,
\* so the stored ids are exactly the pushed ids.
C40_StoredListIsThePush ==
    [][/\ (req["h1"].pc = "locked" /\ req'["h1"].pc = "merged" /\ req["h1"].existing) =>
            LET in == req["h1"].state.Containers
                out == req'["h1"].state.Containers
                old == agents[req["h1"].state.AgentName].Containers
            IN  /\ Len(out) = Len(in)
                /\ \A i \in DOMAIN in :
                      /\ out[i].ID = in[i].ID
                      /\ out[i].State = in[i].State
                      /\ (\A j \in DOMAIN old : old[j].ID # in[i].ID) =>
                            /\ out[i].PreviousState = in[i].PreviousState
                            /\ out[i].LastStateChange > now
                            /\ \A j \in DOMAIN old :
                                  out[i].LastStateChange > old[j].LastStateChange
       /\ (req["h1"].pc = "locked" /\ req'["h1"].pc = "merged" /\ ~req["h1"].existing) =>
            req'["h1"].state.Containers = req["h1"].state.Containers
       /\ (req["h1"].pc = "merged" /\ req'["h1"].pc = "idle") =>
            agents'[req["h1"].state.AgentName].Containers = req["h1"].state.Containers
      ]_vars

\* the store holds c1 with the history of a running -> exited change, next
\* to c2; a push that reports c2 alone has been merged into a list of c2 only
C40_Witness ==
    /\ req["h1"].pc = "merged"
    /\ "a1" \in DOMAIN agents
    /\ Len(agents["a1"].Containers) = 2
    /\ \E j \in 1..2 :
          /\ agents["a1"].Containers[j].ID = "c1"
          /\ agents["a1"].Containers[j].State = "exited"
          /\ agents["a1"].Containers[j].PreviousState = "running"
    /\ Len(req["h1"].state.Containers) = 1
    /\ req["h1"].state.Containers[1].ID = "c2"

====
